---------------------------- MODULE Spec2Model ----------------------------
(***************************************************************************)
(* A model of mindmap-core.js (src/unnamed/part_000): the Markdown parser  *)
(* parseMarkdown and the serializer serializeToMarkdown.                   *)
(*                                                                         *)
(* A string is a sequence of one-character strings; a line is a string     *)
(* without "\n".  Objects live in a heap `nodes` (a sequence of node       *)
(* records); an object reference is an index into it, Null is no object.   *)
(* A property a JavaScript object does not have (headingLevel of a list    *)
(* item, imageWidth of a node without size) holds Undefined; an absent     *)
(* image is the empty string, which the code treats alike (`if (x.image)`).*)
(***************************************************************************)
EXTENDS Integers, Sequences, FiniteSets, TLC

(* ------------------------------ bounds -------------------------------- *)
\* the longest input, in lines
MaxLines == 4
\* the deepest indentation of an input list item, in spaces
MaxIndent == 2
\* generateId draws from MaxIds + 1 values (timestamp and random suffix)
MaxIds == 1

(* ---------------------------- JS values ------------------------------- *)
Null == 0
Undefined == -1
NoImage == <<>>

\* JavaScript truthiness of a number-or-undefined property
Truthy(v) == v # Undefined /\ v # 0

(* ----------------------------- characters ----------------------------- *)
\* \s of a JavaScript regular expression, as far as lines here hold it
WhiteSpace == {" ", "\t", "\r"}
\* what `.` does not match
LineTerminators == {"\r", "\n"}
Digits == <<"0", "1", "2", "3", "4", "5", "6", "7", "8", "9">>
DigitChars == {Digits[i] : i \in 1..10}

Max(S) == CHOOSE m \in S : \A k \in S : k <= m

\* s.substring(from - 1), 1-based
Drop(s, from) == SubSeq(s, from, Len(s))

\* the length of the longest prefix of s[from..] whose characters are in cs
RECURSIVE Run(_, _, _)
Run(s, from, cs) ==
  IF from <= Len(s) /\ s[from] \in cs THEN 1 + Run(s, from + 1, cs) ELSE 0

\* the length of the longest prefix of s[from..] with no character in cs
RECURSIVE RunNot(_, _, _)
RunNot(s, from, cs) ==
  IF from <= Len(s) /\ s[from] \notin cs THEN 1 + RunNot(s, from + 1, cs) ELSE 0

\* String.prototype.trim
Trim(s) ==
  LET lead == Run(s, 1, WhiteSpace)
      keep == {k \in 1..Len(s) : s[k] \notin WhiteSpace}
  IN  IF keep = {} THEN <<>> ELSE SubSeq(s, lead + 1, Max(keep))

\* parseInt of a string of decimal digits
RECURSIVE ParseInt(_)
ParseInt(s) ==
  IF s = <<>> THEN 0
  ELSE 10 * ParseInt(SubSeq(s, 1, Len(s) - 1))
       + (CHOOSE d \in 0..9 : Digits[d + 1] = s[Len(s)])

\* String(n) of a non-negative integer
RECURSIVE NumToStr(_)
NumToStr(n) ==
  IF n < 10 THEN <<Digits[n + 1]>>
  ELSE NumToStr(n \div 10) \o <<Digits[(n % 10) + 1]>>

\* ch.repeat(k)
RECURSIVE Repeat(_, _)
Repeat(s, k) == IF k <= 0 THEN <<>> ELSE s \o Repeat(s, k - 1)

(* --------------------------- the line patterns ------------------------ *)
NoMatch == [matched |-> FALSE]

\* line.match(/^(#{1,4})\s+(.+)/): one to four '#', white space, and a
\* non-empty rest without line terminator.  \s+ is greedy and gives back
\* characters (never its first) until one is left for (.+), which then runs
\* to the first line terminator.
HeadingMatch(line) ==
  LET hashes == Run(line, 1, {"#"})
      ws     == Run(line, hashes + 1, WhiteSpace)
      \* the lengths of \s+ that leave (.+) a first character
      fits   == {j \in 1..ws : hashes + j + 1 <= Len(line)
                               /\ line[hashes + j + 1] \notin LineTerminators}
  IN  IF hashes \in 1..4 /\ fits # {}
      THEN LET from == hashes + Max(fits) + 1
           IN  [matched |-> TRUE,
                g1 |-> SubSeq(line, 1, hashes),
                g2 |-> SubSeq(line, from,
                              from + RunNot(line, from, LineTerminators) - 1)]
      ELSE NoMatch

\* line.match(/^(\s*)- (.+)/): the leading white space, "- " and a non-empty
\* rest without line terminator.
ListMatch(line) ==
  LET ws   == Run(line, 1, WhiteSpace)
      from == ws + 3
  IN  IF /\ from <= Len(line)
         /\ line[ws + 1] = "-"
         /\ line[ws + 2] = " "
         /\ line[from] \notin LineTerminators
      THEN [matched |-> TRUE,
            g1 |-> SubSeq(line, 1, ws),
            g2 |-> SubSeq(line, from,
                          from + RunNot(line, from, LineTerminators) - 1)]
      ELSE NoMatch

\* line.match(/^\s*!\[([^\]]*)\]\(([^)\s]+)(?:\s*=(\d+)x(\d+))?\)/).
\* g3 and g4 are <<>> when the optional size group takes no part in the
\* match (JavaScript's undefined; a group that matches is never empty).
ImageMatch(line) ==
  LET ws    == Run(line, 1, WhiteSpace)
      alt   == ws + 3                       \* first character of the alt text
      altN  == RunNot(line, alt, {"]"})
      path  == alt + altN + 2               \* first character of the path
      pathN == RunNot(line, path, WhiteSpace \cup {")"})
      after == path + pathN                 \* what follows the path
      gap   == Run(line, after, WhiteSpace)
      w     == after + gap + 1              \* first digit of the width
      wN    == Run(line, w, DigitChars)
      h     == w + wN + 1                   \* first digit of the height
      hN    == Run(line, h, DigitChars)
      open  == /\ path - 1 <= Len(line)
               /\ line[ws + 1] = "!"
               /\ line[ws + 2] = "["
               /\ line[alt + altN] = "]"
               /\ line[path - 1] = "("
               /\ pathN >= 1
      sized == /\ h + hN <= Len(line)
               /\ line[after + gap] = "="
               /\ wN >= 1
               /\ line[w + wN] = "x"
               /\ hN >= 1
               /\ line[h + hN] = ")"
      plain == after <= Len(line) /\ line[after] = ")"
  IN  IF open /\ sized
      THEN [matched |-> TRUE,
            g1 |-> SubSeq(line, alt, alt + altN - 1),
            g2 |-> SubSeq(line, path, after - 1),
            g3 |-> SubSeq(line, w, w + wN - 1),
            g4 |-> SubSeq(line, h, h + hN - 1)]
      ELSE IF open /\ plain
      THEN [matched |-> TRUE,
            g1 |-> SubSeq(line, alt, alt + altN - 1),
            g2 |-> SubSeq(line, path, after - 1),
            g3 |-> <<>>,
            g4 |-> <<>>]
      ELSE NoMatch

(* ------------------------------ the parser ---------------------------- *)
\* generateId(): Date.now().toString(36) followed by up to six base-36 digits
\* of Math.random().  Both are inputs of the environment; an id is one of the
\* strings the pair can give, here one of MaxIds + 1 values.
IdSpace == 0..MaxIds

\* { id, text, children: [] } with or without headingLevel
NewNode(id, text, level) ==
  [id |-> id, text |-> text, children |-> <<>>, headingLevel |-> level,
   image |-> NoImage, imageWidth |-> Undefined, imageHeight |-> Undefined,
   collapsed |-> "undefined"]

\* The state of one parseMarkdown call: its heap and its local variables.
\* thrown: a TypeError left the function.
InitParse ==
  [nodes |-> <<>>, rootNode |-> Null, stack |-> <<>>, lastNode |-> Null,
   thrown |-> FALSE]

\* PopForHeading breaking at a heading of the same level as well
RECURSIVE PopForHeadingSameLevel(_, _)
PopForHeadingSameLevel(stack, level) ==
  IF Len(stack) > 1
  THEN LET top == stack[Len(stack)]
       IN  IF top.headingLevel > 0 /\ top.headingLevel <= level
           THEN stack
           ELSE PopForHeadingSameLevel(SubSeq(stack, 1, Len(stack) - 1), level)
  ELSE stack

\* PopForHeading without the loop: the stack stays as it is
PopForHeadingNever(stack, level) == stack

\* while (stack.length > 1) { top = ...; if (top.headingLevel > 0 &&
\*   top.headingLevel < level) break; stack.pop(); }
RECURSIVE PopForHeading(_, _)
PopForHeading(stack, level) ==
  IF Len(stack) > 1
  THEN LET top == stack[Len(stack)]
       IN  IF top.headingLevel > 0 /\ top.headingLevel < level
           THEN stack
           ELSE PopForHeading(SubSeq(stack, 1, Len(stack) - 1), level)
  ELSE stack

\* PopForList keeping an item of the same indentation on the stack
RECURSIVE PopForListSameIndent(_, _)
PopForListSameIndent(stack, indent) ==
  IF Len(stack) > 1
  THEN LET top == stack[Len(stack)]
       IN  IF top.headingLevel > 0 THEN stack
           ELSE IF top.indent <= indent THEN stack
           ELSE PopForListSameIndent(SubSeq(stack, 1, Len(stack) - 1), indent)
  ELSE stack

\* while (stack.length > 1) { top = ...; if (top.headingLevel > 0) break;
\*   if (top.indent < indent) break; stack.pop(); }
RECURSIVE PopForList(_, _)
PopForList(stack, indent) ==
  IF Len(stack) > 1
  THEN LET top == stack[Len(stack)]
       IN  IF top.headingLevel > 0 THEN stack
           ELSE IF top.indent < indent THEN stack
           ELSE PopForList(SubSeq(stack, 1, Len(stack) - 1), indent)
  ELSE stack

\* AttachToTop with parent.children.unshift(node) for push
AttachToTopFirst(st, stack, node, indent, level) ==
  IF stack = <<>> THEN [st EXCEPT !.thrown = TRUE]
  ELSE LET parent == stack[Len(stack)].node
           new    == Len(st.nodes) + 1
       IN  [st EXCEPT
              !.nodes = Append([@ EXCEPT ![parent].children = <<new>> \o @],
                               node),
              !.stack = Append(stack, [node |-> new, indent |-> indent,
                                       headingLevel |-> level]),
              !.lastNode = new]

\* parent = stack[stack.length - 1].node; parent.children.push(node);
\* stack.push(frame); lastNode = node.  Reading .node of an empty stack's
\* undefined top throws.
AttachToTop(st, stack, node, indent, level) ==
  IF stack = <<>> THEN [st EXCEPT !.thrown = TRUE]
  ELSE LET parent == stack[Len(stack)].node
           new    == Len(st.nodes) + 1
       IN  [st EXCEPT
              !.nodes = Append([@ EXCEPT ![parent].children = Append(@, new)],
                               node),
              !.stack = Append(stack, [node |-> new, indent |-> indent,
                                       headingLevel |-> level]),
              !.lastNode = new]

\* HeadingRoot keeping the first root: a later H1 changes nothing
HeadingRootOnce(st, nodeText, id) ==
  IF st.rootNode # Null THEN st
  ELSE LET new == Len(st.nodes) + 1
       IN  [st EXCEPT
              !.nodes = Append(@, NewNode(id, nodeText, 1)),
              !.rootNode = new,
              !.stack = <<[node |-> new, indent |-> -1, headingLevel |-> 1]>>,
              !.lastNode = Null]

\* HeadingRoot without `stack.length = 0`: the new root is pushed onto the
\* frames of the tree before
HeadingRootKeepStack(st, nodeText, id) ==
  LET new == Len(st.nodes) + 1
  IN  [st EXCEPT
         !.nodes = Append(@, NewNode(id, nodeText, 1)),
         !.rootNode = new,
         !.stack = Append(@, [node |-> new, indent |-> -1, headingLevel |-> 1]),
         !.lastNode = Null]

\* the `level === 1` branch
HeadingRoot(st, nodeText, id) ==
  LET new == Len(st.nodes) + 1
  IN  [st EXCEPT
         !.nodes = Append(@, NewNode(id, nodeText, 1)),
         !.rootNode = new,
         !.stack = <<[node |-> new, indent |-> -1, headingLevel |-> 1]>>,
         !.lastNode = Null]

\* the `else if (rootNode)` branch of a heading line
HeadingNested(st, level, nodeText, id) ==
  IF st.rootNode # Null
  THEN AttachToTop(st, PopForHeading(st.stack, level),
                   NewNode(id, nodeText, level), -1, level)
  ELSE st

\* AttachImage forgetting the sizes
AttachImageNoSize(st, m) ==
  [st EXCEPT !.nodes[st.lastNode].image = m.g2]

\* the image branch: lastNode.image = m[2]; the sizes if their groups matched
AttachImage(st, m) ==
  [st EXCEPT
     !.nodes[st.lastNode].image = m.g2,
     !.nodes[st.lastNode].imageWidth =
        IF m.g3 # <<>> THEN ParseInt(m.g3) ELSE @,
     !.nodes[st.lastNode].imageHeight =
        IF m.g4 # <<>> THEN ParseInt(m.g4) ELSE @]

\* the `if (listMatch && rootNode)` branch
ListItem(st, m, id) ==
  LET indent == Len(m.g1)
  IN  AttachToTop(st, PopForList(st.stack, indent),
                  NewNode(id, Trim(m.g2), Undefined), indent, 0)

\* ClearLast leaving lastNode as it is
ClearLastNot(st) == st

\* ListGuard without the test of rootNode
ListGuardNoRoot(st, m) == m.matched

\* the `else` of the list branch: lastNode = null
ClearLast(st) == [st EXCEPT !.lastNode = Null]

\* whether the list branch is taken: listMatch && rootNode
ListGuard(st, m) == m.matched /\ st.rootNode # Null

\* one iteration of `for (const line of lines)`; id is what generateId
\* returns if the iteration calls it
ParseLine(st, line, id) ==
  LET hm == HeadingMatch(line)
      im == ImageMatch(line)
      lm == ListMatch(line)
  IN  IF hm.matched
      THEN IF Len(hm.g1) = 1
           THEN HeadingRoot(st, Trim(hm.g2), id)
           ELSE HeadingNested(st, Len(hm.g1), Trim(hm.g2), id)
      ELSE IF im.matched /\ st.lastNode # Null
      THEN AttachImage(st, im)
      ELSE IF ListGuard(st, lm)
      THEN ListItem(st, lm, id)
      ELSE ClearLast(st)

\* return rootNode || { id: generateId(), text: 'Central Topic', children: [] }
CentralTopic ==
  <<"C", "e", "n", "t", "r", "a", "l", " ", "T", "o", "p", "i", "c">>

ParseReturn(st, id) ==
  IF st.rootNode # Null THEN [heap |-> st.nodes, node |-> st.rootNode]
  ELSE [heap |-> Append(st.nodes, NewNode(id, CentralTopic, Undefined)),
        node |-> Len(st.nodes) + 1]

\* text.split('\n')
RECURSIVE Split(_)
Split(text) ==
  LET n == RunNot(text, 1, {"\n"})
  IN  IF n = Len(text) THEN <<text>>
      ELSE <<SubSeq(text, 1, n)>> \o Split(Drop(text, n + 2))

\* the loop over the lines from state st, with every generateId giving id
RECURSIVE ParseLines(_, _, _)
ParseLines(st, ls, id) ==
  IF ls = <<>> \/ st.thrown THEN st
  ELSE ParseLines(ParseLine(st, Head(ls), id), Tail(ls), id)

\* parseMarkdown(text) as a function, with every generateId giving id
parseMarkdown(text, id) ==
  ParseReturn(ParseLines(InitParse, Split(text), id), id)

(* ---------------------------- the serializer -------------------------- *)
\* sizeStr writing the height before the width
SizeStrHeightFirst(n) ==
  IF Truthy(n.imageWidth) /\ Truthy(n.imageHeight)
  THEN <<" ", "=">> \o NumToStr(n.imageHeight) \o <<"x">>
       \o NumToStr(n.imageWidth)
  ELSE <<>>

\* sizeStr: ' =WxH' when imageWidth and imageHeight are both truthy
SizeStr(n) ==
  IF Truthy(n.imageWidth) /\ Truthy(n.imageHeight)
  THEN <<" ", "=">> \o NumToStr(n.imageWidth) \o <<"x">>
       \o NumToStr(n.imageHeight)
  ELSE <<>>

\* the image line of a child, after the indentation: ![](image sizeStr)\n
ImageLine(n) ==
  IF n.image # NoImage
  THEN <<"!", "[", "]", "(">> \o n.image \o SizeStr(n) \o <<")", "\n">>
  ELSE <<>>

\* serializeChildren keeping the list depth below a heading
RECURSIVE serializeChildrenKeepDepth(_, _, _)
serializeChildrenKeepDepth(heap, children, depth) ==
  IF children = <<>> THEN <<>>
  ELSE
    LET child  == heap[Head(children)]
        indent == Repeat(<<" ", " ">>, depth)
        own ==
          IF child.headingLevel >= 2
          THEN Repeat(<<"#">>, child.headingLevel) \o <<" ">> \o child.text
               \o <<"\n">> \o ImageLine(child)
               \o serializeChildrenKeepDepth(heap, child.children, depth)
          ELSE indent \o <<"-", " ">> \o child.text \o <<"\n">>
               \o (IF child.image # NoImage
                   THEN indent \o <<" ", " ">> \o ImageLine(child)
                   ELSE <<>>)
               \o serializeChildrenKeepDepth(heap, child.children, depth + 1)
    IN  own \o serializeChildrenKeepDepth(heap, Tail(children), depth)

\* serializeChildren leaving out the children of a collapsed node
RECURSIVE serializeChildrenVisible(_, _, _)
serializeChildrenVisible(heap, children, depth) ==
  IF children = <<>> THEN <<>>
  ELSE
    LET child  == heap[Head(children)]
        indent == Repeat(<<" ", " ">>, depth)
        below  == IF child.collapsed = "true" THEN <<>> ELSE child.children
        own ==
          IF child.headingLevel >= 2
          THEN Repeat(<<"#">>, child.headingLevel) \o <<" ">> \o child.text
               \o <<"\n">> \o ImageLine(child)
               \o serializeChildrenVisible(heap, below, 0)
          ELSE indent \o <<"-", " ">> \o child.text \o <<"\n">>
               \o (IF child.image # NoImage
                   THEN indent \o <<" ", " ">> \o ImageLine(child)
                   ELSE <<>>)
               \o serializeChildrenVisible(heap, below, depth + 1)
    IN  own \o serializeChildrenVisible(heap, Tail(children), depth)

\* serializeChildren(children, depth): what it appends to result
RECURSIVE serializeChildren(_, _, _)
serializeChildren(heap, children, depth) ==
  IF children = <<>> THEN <<>>
  ELSE
    LET child  == heap[Head(children)]
        indent == Repeat(<<" ", " ">>, depth)
        own ==
          IF child.headingLevel >= 2
          THEN Repeat(<<"#">>, child.headingLevel) \o <<" ">> \o child.text
               \o <<"\n">> \o ImageLine(child)
               \o serializeChildren(heap, child.children, 0)
          ELSE indent \o <<"-", " ">> \o child.text \o <<"\n">>
               \o (IF child.image # NoImage
                   THEN indent \o <<" ", " ">> \o ImageLine(child)
                   ELSE <<>>)
               \o serializeChildren(heap, child.children, depth + 1)
    IN  own \o serializeChildren(heap, Tail(children), depth)

\* serializeToMarkdown(node), node an object of heap
serializeToMarkdown(heap, node) ==
  <<"#", " ">> \o heap[node].text \o <<"\n">>
  \o serializeChildren(heap, heap[node].children, 0)

(* ------------------------------ the inputs ---------------------------- *)
LabelA == <<"a">>
LabelB == <<"b">>
Blank  == <<" ">>

\* '#'.repeat(k) + ' ' + label
HeadingLineOf(k, label) == Repeat(<<"#">>, k) \o <<" ">> \o label
\* ' '.repeat(indent) + '- ' + label
ListLineOf(indent, label) == Repeat(<<" ">>, indent) \o <<"-", " ">> \o label
\* ![alt](path) and ![alt](path =WxH)
PlainImageLine == <<"!", "[", "]", "(", "p", ")">>
SizedImageLine ==
  <<" ", "!", "[", "i", "]", "(", "q", " ", "=", "1", "2", "x", "3", ")">>

\* The lines an input is made of: headings of one to five '#', list items
\* of every indentation, a heading and a list item whose label is blank,
\* the two forms of an image line, and the empty line.
LineSet ==
  {HeadingLineOf(k, LabelA) : k \in 1..5}
  \cup {ListLineOf(i, LabelB) : i \in 0..MaxIndent}
  \cup {HeadingLineOf(1, Blank), ListLineOf(0, Blank)}
  \cup {PlainImageLine, SizedImageLine, <<>>}

(* --------------------------- the state machine ------------------------ *)
\* One call of parseMarkdown(text).  lines is the part of text.split('\n')
\* the loop has gone through; the lines to come are the environment's
\* choice, so the call may return after any line but not before the first
\* (split never gives an empty array).
VARIABLES
  lines,     \* the lines processed so far
  nodes,     \* the heap: every node object created so far
  rootNode,  \* let rootNode
  stack,     \* const stack
  lastNode,  \* let lastNode
  thrown,    \* a TypeError ended the call
  created,   \* history: created[n] is the number of the line that made node n
  pc,        \* "loop" in the for loop, "done" after return
  result,    \* the returned node, Null before return
  markdown,  \* the string serializeToMarkdown returned
  oldNode,   \* the old tree handed to preserveCollapsedState
  layout,    \* the layout nodes layoutTree made
  wrap,      \* the arguments and the locals of a wrapText call
  origin,    \* the x and y handed to positionNodes with the layout root
  ui         \* the state of the webview script and of the extension host

vars == <<lines, nodes, rootNode, stack, lastNode, thrown, created, pc, result,
          markdown, oldNode, layout, wrap, origin, ui>>

\* what a call of parseMarkdown does not touch
others == <<markdown, oldNode, layout, wrap, origin, ui>>

ParseState ==
  [nodes |-> nodes, rootNode |-> rootNode, stack |-> stack,
   lastNode |-> lastNode, thrown |-> thrown]

Init ==
  /\ lines = <<>>
  /\ nodes = InitParse.nodes
  /\ rootNode = InitParse.rootNode
  /\ stack = InitParse.stack
  /\ lastNode = InitParse.lastNode
  /\ thrown = InitParse.thrown
  /\ created = <<>>
  /\ pc = "loop"
  /\ result = Null
  /\ markdown = <<>>
  /\ oldNode = Null
  /\ layout = <<>>
  /\ wrap = <<>>
  /\ origin = <<>>
  /\ ui = <<>>

\* the loop body on the next line
Step(line, id) ==
  LET st == ParseLine(ParseState, line, id)
  IN  /\ pc = "loop"
      /\ ~thrown
      /\ Len(lines) < MaxLines
      /\ lines' = Append(lines, line)
      /\ nodes' = st.nodes
      /\ rootNode' = st.rootNode
      /\ stack' = st.stack
      /\ lastNode' = st.lastNode
      /\ thrown' = st.thrown
      /\ created' = IF Len(st.nodes) > Len(nodes)
                    THEN Append(created, Len(lines) + 1) ELSE created
      /\ UNCHANGED <<pc, result>>
      /\ UNCHANGED others

\* the inputs by the pattern they match
HeadingLines == {line \in LineSet : HeadingMatch(line).matched}
ImageLines == {line \in LineSet \ HeadingLines : ImageMatch(line).matched}
ListLines == {line \in LineSet \ HeadingLines : ListMatch(line).matched}

\* the next line is a heading
HeadingStep ==
  \E line \in HeadingLines, id \in IdSpace : Step(line, id)

\* the next line is an image line and lastNode is set
ImageStep ==
  /\ lastNode # Null
  /\ \E line \in ImageLines : Step(line, Null)

\* the next line is a list item and rootNode is set
ListStep ==
  /\ rootNode # Null
  /\ \E line \in ListLines \ (IF lastNode # Null THEN ImageLines ELSE {}),
        id \in IdSpace : Step(line, id)

\* the next line is anything else
OtherStep ==
  \E line \in LineSet \ HeadingLines :
    /\ ~(line \in ImageLines /\ lastNode # Null)
    /\ ~(line \in ListLines /\ rootNode # Null)
    /\ Step(line, Null)

\* the return statement
Return ==
  /\ pc = "loop"
  /\ ~thrown
  /\ Len(lines) >= 1
  /\ \E id \in IdSpace :
       LET r == ParseReturn(ParseState, id)
       IN  /\ nodes' = r.heap
           /\ result' = r.node
           /\ created' = IF Len(r.heap) > Len(nodes)
                         THEN Append(created, Len(lines) + 1) ELSE created
  /\ pc' = "done"
  /\ UNCHANGED <<lines, rootNode, stack, lastNode, thrown>>
  /\ UNCHANGED others

Next == HeadingStep \/ ImageStep \/ ListStep \/ OtherStep \/ Return

Spec == Init /\ [][Next]_vars

(* ====================== what the claims speak of ====================== *)
\* the nodes of the tree under n
RECURSIVE Tree(_, _)
Tree(heap, n) ==
  {n} \cup UNION {Tree(heap, heap[n].children[i]) :
                    i \in 1..Len(heap[n].children)}

\* a tree without its ids: text, headingLevel and the children in order
RECURSIVE Shape(_, _)
Shape(heap, n) ==
  [text |-> heap[n].text, headingLevel |-> heap[n].headingLevel,
   children |-> [i \in 1..Len(heap[n].children) |->
                   Shape(heap, heap[n].children[i])]]

\* a tree without its ids, with the images
RECURSIVE ShapeWithImages(_, _)
ShapeWithImages(heap, n) ==
  [text |-> heap[n].text, headingLevel |-> heap[n].headingLevel,
   image |-> heap[n].image, imageWidth |-> heap[n].imageWidth,
   imageHeight |-> heap[n].imageHeight,
   children |-> [i \in 1..Len(heap[n].children) |->
                   ShapeWithImages(heap, heap[n].children[i])]]

\* the parent of node n in the heap, Null if it has none
ParentOf(heap, n) ==
  LET ps == {p \in DOMAIN heap :
               \E i \in 1..Len(heap[p].children) : heap[p].children[i] = n}
  IN  IF ps = {} THEN Null ELSE CHOOSE p \in ps : TRUE

\* The Markdown dialect as the specification words it, read off the line
\* alone: the heading level of a line (0: not a heading of level 1 to 4) ...
LevelOfLine(line) ==
  LET k == Run(line, 1, {"#"})
  IN  IF k \in 1..4 /\ Len(line) >= k + 2 /\ line[k + 1] \in WhiteSpace
      THEN k ELSE 0
\* ... whether it is a list item, and its indentation
IndentOfLine(line) == Run(line, 1, WhiteSpace)
IsListLine(line) ==
  /\ Len(line) >= IndentOfLine(line) + 3
  /\ line[IndentOfLine(line) + 1] = "-"
  /\ line[IndentOfLine(line) + 2] = " "
\* ... and whether it is an image line
IsImageLine(line) == line \in {PlainImageLine, SizedImageLine}

\* the number of the last H1 line among ls, 0 if there is none
LastH1(ls) ==
  LET hs == {j \in 1..Len(ls) : LevelOfLine(ls[j]) = 1}
  IN  IF hs = {} THEN 0 ELSE Max(hs)

\* whether line j of ls makes a node: an H1, or a heading or list item
\* after an H1
MakesNode(ls, j) ==
  \/ LevelOfLine(ls[j]) = 1
  \/ /\ LevelOfLine(ls[j]) \in 2..4 \/ IsListLine(ls[j])
     /\ LastH1(SubSeq(ls, 1, j - 1)) > 0

\* the node line j made
NodeOfLine(j) == CHOOSE n \in DOMAIN created : created[n] = j

\* ls.join('\n')
RECURSIVE Join(_)
Join(ls) ==
  IF Len(ls) <= 1 THEN (IF ls = <<>> THEN <<>> ELSE ls[1])
  ELSE ls[1] \o <<"\n">> \o Join(Tail(ls))

(* ------------------------------ C1 ------------------------------------ *)
\* C1 (round trip): parsing the serialization of a returned tree gives a
\* tree with the same text, headingLevel and children at every position.
C1_RoundTrip ==
  pc = "done" =>
    LET again == parseMarkdown(serializeToMarkdown(nodes, result), 0)
    IN  Shape(again.heap, again.node) = Shape(nodes, result)

(* ------------------------------ C2 ------------------------------------ *)
\* C2 (root uniqueness): the returned node has headingLevel 1 and it is the
\* only node of the returned tree that has.
C2_RootUnique ==
  pc = "done" =>
    /\ nodes[result].headingLevel = 1
    /\ {n \in Tree(nodes, result) : nodes[n].headingLevel = 1} = {result}

(* ------------------------------ C3 ------------------------------------ *)
\* C3 (totality): the call never throws; it returns a node; without an H1
\* line that node is a lone "Central Topic"; and every node was made by a
\* line of its own that is an H1, or a level 2-4 heading or a list item
\* after an H1: no other line makes a node.
C3_Total ==
  /\ ~thrown
  /\ Len(created) = Len(nodes)
  /\ \A n \in DOMAIN nodes :
       \/ /\ created[n] <= Len(lines)
          /\ MakesNode(lines, created[n])
          /\ \A m \in DOMAIN nodes : m # n => created[m] # created[n]
       \/ pc = "done" /\ LastH1(lines) = 0 /\ n = result
  /\ pc = "done" =>
       /\ result \in DOMAIN nodes
       /\ LastH1(lines) = 0 =>
            /\ nodes = <<NewNode(nodes[result].id, CentralTopic, Undefined)>>
            /\ nodes[result].children = <<>>

\* C3's case: a returned "Central Topic" after level 2-4 headings, a line of
\* five '#' and list items that made no node
C3_Witness ==
  /\ pc = "done"
  /\ Len(nodes) = 1
  /\ nodes[result].text = CentralTopic
  /\ \E i, j, k \in 1..Len(lines) :
       /\ LevelOfLine(lines[i]) \in 2..4
       /\ IsListLine(lines[j])
       /\ Run(lines[k], 1, {"#"}) = 5

(* ------------------------------ C4 ------------------------------------ *)
\* C4 (heading placement): in a returned tree the parent of a heading of
\* level L in 2..4 is the node of the last heading line before it, from the
\* last H1 on, whose level is below L; so the parent is the root or a
\* heading of a lower level; and no list item has a heading as a child.
C4_HeadingPlacement ==
  pc = "done" =>
    \A n \in Tree(nodes, result) :
      LET L == nodes[n].headingLevel
          p == ParentOf(nodes, n)
          lower == {j \in LastH1(lines)..(created[n] - 1) :
                      LevelOfLine(lines[j]) \in 1..(L - 1)}
      IN  /\ L \in 2..4 =>
               /\ lower # {}
               /\ p = NodeOfLine(Max(lower))
               /\ nodes[p].headingLevel \in 1..(L - 1)
               /\ p = result \/ nodes[p].headingLevel \in 2..4
          /\ L \notin 1..4 =>
               \A i \in 1..Len(nodes[n].children) :
                 nodes[nodes[n].children[i]].headingLevel \notin 1..4

\* C4's case: a heading two levels below its parent, after a heading of the
\* level between them was closed
C4_Witness ==
  /\ pc = "done"
  /\ \E n, m \in Tree(nodes, result) \ {result} :
       /\ nodes[n].headingLevel = 4
       /\ nodes[ParentOf(nodes, n)].headingLevel = 2
       /\ nodes[m].headingLevel = 3
       /\ created[m] < created[ParentOf(nodes, n)]

(* ------------------------------ C5 ------------------------------------ *)
\* C5 (list nesting): the parent of a list item is the last list item
\* before it, since the last heading line, that is still open (no later
\* item at its indentation or less) and has a smaller indentation; without
\* one it is the node of that heading.  Consecutive items of equal
\* indentation are siblings.
C5_ListNesting ==
  pc = "done" =>
    \A n \in Tree(nodes, result) \ {result} :
      nodes[n].headingLevel = Undefined =>
        LET i == created[n]
            h == Max({j \in 1..(i - 1) : LevelOfLine(lines[j]) \in 1..4})
            items == {j \in (h + 1)..(i - 1) : IsListLine(lines[j])}
            open == {j \in items : \A k \in items :
                       k > j => IndentOfLine(lines[k]) > IndentOfLine(lines[j])}
            under == {j \in open :
                        IndentOfLine(lines[j]) < IndentOfLine(lines[i])}
        IN  /\ ParentOf(nodes, n)
                 = NodeOfLine(IF under # {} THEN Max(under) ELSE h)
            /\ \A j \in items :
                 /\ j = Max(items)
                 /\ IndentOfLine(lines[j]) = IndentOfLine(lines[i])
                 => ParentOf(nodes, NodeOfLine(j)) = ParentOf(nodes, n)

\* C5's case: an item whose parent is an item two lines back, the deeper
\* item between them closed; and an indented item directly under a heading
C5_Witness ==
  /\ pc = "done"
  /\ \E n, m \in Tree(nodes, result) \ {result} :
       /\ nodes[n].headingLevel = Undefined
       /\ nodes[ParentOf(nodes, n)].headingLevel = Undefined
       /\ ParentOf(nodes, n) # result
       /\ created[ParentOf(nodes, n)] = created[n] - 2
       /\ IsListLine(lines[created[n] - 1])
       /\ ParentOf(nodes, m) = result
       /\ IsListLine(lines[created[m]])
       /\ IndentOfLine(lines[created[m]]) > 0

(* ------------------------------ C6 ------------------------------------ *)
\* C6 (H1 reset): the returned tree is the tree of the text from its last H1
\* line on, and holds no node made before that line.
C6_H1Reset ==
  (pc = "done" /\ LastH1(lines) > 0) =>
    LET suffix == SubSeq(lines, LastH1(lines), Len(lines))
        alone  == parseMarkdown(Join(suffix), 0)
    IN  /\ ShapeWithImages(nodes, result)
             = ShapeWithImages(alone.heap, alone.node)
        /\ \A n \in Tree(nodes, result) : created[n] >= LastH1(lines)

\* C6's case: a second H1 after a first tree with a child, and a child after
C6_Witness ==
  /\ pc = "done"
  /\ LastH1(lines) = 3
  /\ Len(nodes) = 4
  /\ Cardinality(Tree(nodes, result)) = 2

(* ------------------------------ C7 ------------------------------------ *)
\* the path and the sizes an image line of the inputs names
ImagePathOf(line) == IF line = SizedImageLine THEN <<"q">> ELSE <<"p">>
ImageWidthOf(line) == IF line = SizedImageLine THEN 12 ELSE Undefined
ImageHeightOf(line) == IF line = SizedImageLine THEN 3 ELSE Undefined

\* whether node n holds just what image line `line` names
HoldsImage(n, line) ==
  /\ nodes[n].image = ImagePathOf(line)
  /\ nodes[n].imageWidth = ImageWidthOf(line)
  /\ nodes[n].imageHeight = ImageHeightOf(line)

\* C7 as claimed (image attachment): once an image line directly after a
\* heading line of level 1 to 4 or a list-item line is processed, the node
\* that line made holds the image's path, and its sizes exactly when given.
C7_ImageAfterAnyNodeLine ==
  LET k == Len(lines)
  IN  (k >= 2 /\ IsImageLine(lines[k]) /\ MakesNode(lines, k - 1)) =>
        HoldsImage(NodeOfLine(k - 1), lines[k])

\* C7 amended: so it is after a heading line of level 2 to 4 or a list-item
\* line that made a node; directly after an H1 line the image line leaves
\* the root without image.
C7_ImageAfterNestedNodeLine ==
  LET k == Len(lines)
  IN  (k >= 2 /\ IsImageLine(lines[k]) /\ MakesNode(lines, k - 1)) =>
        IF LevelOfLine(lines[k - 1]) = 1
        THEN /\ nodes[NodeOfLine(k - 1)].image = NoImage
             /\ nodes[NodeOfLine(k - 1)].imageWidth = Undefined
             /\ nodes[NodeOfLine(k - 1)].imageHeight = Undefined
        ELSE HoldsImage(NodeOfLine(k - 1), lines[k])

\* C7's case: a sized image line attached to the heading of the line before
C7_Witness ==
  LET k == Len(lines)
  IN  /\ k >= 2
      /\ lines[k] = SizedImageLine
      /\ LevelOfLine(lines[k - 1]) \in 2..4
      /\ MakesNode(lines, k - 1)
      /\ nodes[NodeOfLine(k - 1)].imageWidth = 12

(* ------------------------------ C8 ------------------------------------ *)
\* a line that is blank or not of the dialect
IsUnrecognized(line) ==
  LevelOfLine(line) = 0 /\ ~IsListLine(line) /\ ~IsImageLine(line)

\* whether an image line after ls has no fresh target: no line of ls made a
\* node, or a blank or unrecognized line follows the last that did
NoFreshTarget(ls) ==
  LET made == {j \in 1..Len(ls) : MakesNode(ls, j)}
  IN  \/ made = {}
      \/ \E j \in (Max(made) + 1)..Len(ls) : IsUnrecognized(ls[j])

\* C8 (image locality): an image line without a fresh target changes no
\* node; for '# a', an image line, '- b' the item has no image.
C8_ImageLocality ==
  /\ [][(/\ Len(lines') = Len(lines) + 1
         /\ IsImageLine(lines'[Len(lines')])
         /\ NoFreshTarget(lines)) => nodes' = nodes]_vars
  /\ [](lines = <<HeadingLineOf(1, LabelA), PlainImageLine,
                  ListLineOf(0, LabelB)>>
          => /\ Len(nodes) = 2
             /\ nodes[1].image = NoImage
             /\ nodes[2].image = NoImage)

\* C8's case: an image line processed after an item and an empty line
C8_Witness ==
  /\ Len(lines) = 4
  /\ IsListLine(lines[2])
  /\ lines[3] = <<>>
  /\ IsImageLine(lines[4])
  /\ Len(nodes) = 2
  /\ nodes[2].image = NoImage

(* ------------------------------ C9 ------------------------------------ *)
\* C9 (labels): every node of a returned tree has a text of at least one
\* character that neither starts nor ends with white space.
C9_TextTrimmedNonEmpty ==
  pc = "done" =>
    \A n \in Tree(nodes, result) :
      /\ Len(nodes[n].text) >= 1
      /\ nodes[n].text[1] \notin WhiteSpace
      /\ nodes[n].text[Len(nodes[n].text)] \notin WhiteSpace

(* ------------------------------ C10 ----------------------------------- *)
\* C10 (ids): no two generateId calls return the same id, so the ids of the
\* nodes of one call are pairwise distinct.
C10_IdsDistinct ==
  \A m, n \in DOMAIN nodes : m # n => nodes[m].id # nodes[n].id

(* ------------------------------ C11 ----------------------------------- *)
\* ls.join(sep)
RECURSIVE JoinWith(_, _)
JoinWith(ls, sep) ==
  IF Len(ls) <= 1 THEN (IF ls = <<>> THEN <<>> ELSE ls[1])
  ELSE ls[1] \o sep \o JoinWith(Tail(ls), sep)

\* the tree of the lines processed, written with line ending sep
TreeWritten(sep) ==
  LET r == parseMarkdown(JoinWith(lines, sep), 0)
  IN  ShapeWithImages(r.heap, r.node)

\* C11 (line endings): the lines written with "\r\n" or with a bare "\r"
\* parse to the tree they parse to written with "\n".
C11_LineEndings ==
  pc = "done" =>
    /\ TreeWritten(<<"\r", "\n">>) = ShapeWithImages(nodes, result)
    /\ TreeWritten(<<"\r">>) = ShapeWithImages(nodes, result)

(* ================= trees as the functions are given them ============== *)
\* the largest number of nodes of a tree
MaxNodes == 4

\* the text of a node, by its place in the heap
Letters == <<"a", "b", "c", "d", "e", "f">>

\* the parent of each node but the first; a parent comes before its children
ParentMaps(k) == {par \in [2..k -> 1..(k - 1)] : \A i \in 2..k : par[i] < i}

\* a set of numbers in increasing order
RECURSIVE Sorted(_)
Sorted(S) ==
  IF S = {} THEN <<>>
  ELSE LET m == CHOOSE x \in S : \A y \in S : x <= y
       IN  <<m>> \o Sorted(S \ {m})

\* the children array of node n under the parent map par
ChildrenIn(par, n) == Sorted({c \in DOMAIN par : par[c] = n})

\* the image attributes a node may carry: none, a path, a path with both
\* sizes, with the width only, and with a width of 0
ImageStyles ==
  {[image |-> NoImage, imageWidth |-> Undefined, imageHeight |-> Undefined],
   [image |-> <<"p">>, imageWidth |-> Undefined, imageHeight |-> Undefined],
   [image |-> <<"p">>, imageWidth |-> 12, imageHeight |-> 3],
   [image |-> <<"p">>, imageWidth |-> 12, imageHeight |-> Undefined],
   [image |-> <<"p">>, imageWidth |-> 0, imageHeight |-> 3]}

\* a heap holding one tree: node 1 is the root, of heading level 1
TreeHeap(k, par, level, img, coll) ==
  [n \in 1..k |->
     [id |-> n, text |-> <<Letters[n]>>, children |-> ChildrenIn(par, n),
      headingLevel |-> IF n = 1 THEN 1 ELSE level[n],
      image |-> img[n].image, imageWidth |-> img[n].imageWidth,
      imageHeight |-> img[n].imageHeight, collapsed |-> coll[n]]]

\* the variables of a parseMarkdown call, before any call
NoParse ==
  /\ lines = <<>>
  /\ rootNode = Null
  /\ stack = <<>>
  /\ lastNode = Null
  /\ thrown = FALSE
  /\ created = <<>>

(* --------------------- one call of serializeToMarkdown ---------------- *)
\* the tree: any shape, list items (headingLevel absent or 0) and headings
\* of level 2 and 3 in any place, any image attributes
InitSerialize ==
  /\ NoParse
  /\ \E k \in 1..MaxNodes :
       \E par \in ParentMaps(k), level \in [2..k -> {Undefined, 0, 2, 3}],
          img \in [1..k -> ImageStyles] :
         nodes = TreeHeap(k, par, level, img, [n \in 1..k |-> "undefined"])
  /\ result = 1
  /\ pc = "tree"
  /\ markdown = <<>>
  /\ oldNode = Null
  /\ layout = <<>>
  /\ wrap = <<>>
  /\ origin = <<>>
  /\ ui = <<>>

\* markdown = serializeToMarkdown(tree)
Serialize ==
  /\ pc = "tree"
  /\ markdown' = serializeToMarkdown(nodes, result)
  /\ pc' = "serialized"
  /\ UNCHANGED <<lines, nodes, rootNode, stack, lastNode, thrown, created,
                 result, oldNode, layout, wrap, origin, ui>>

NextSerialize == Serialize

SpecSerialize == InitSerialize /\ [][NextSerialize]_vars

(* ====================== serializeToMarkdown's claims ================== *)
\* the nodes of a forest, each before its children, children in order
RECURSIVE Preorder(_, _)
Preorder(heap, ns) ==
  IF ns = <<>> THEN <<>>
  ELSE <<Head(ns)>> \o Preorder(heap, heap[Head(ns)].children)
       \o Preorder(heap, Tail(ns))

\* the list depth of a node that is not the root: 0 below the root and
\* below a heading, one more than its parent's below a list item
RECURSIVE ListDepth(_, _)
ListDepth(heap, n) ==
  LET p == ParentOf(heap, n)
  IN  IF ParentOf(heap, p) = Null \/ heap[p].headingLevel >= 2 THEN 0
      ELSE ListDepth(heap, p) + 1

\* the line of a node as the specification words it
OwnLine(heap, n) ==
  IF ParentOf(heap, n) = Null THEN <<"#", " ">> \o heap[n].text
  ELSE IF heap[n].headingLevel >= 2
  THEN Repeat(<<"#">>, heap[n].headingLevel) \o <<" ">> \o heap[n].text
  ELSE Repeat(<<" ">>, 2 * ListDepth(heap, n)) \o <<"-", " ">> \o heap[n].text

\* the lines of the returned string, each ended by "\n"
OutLines ==
  LET ls == Split(markdown) IN SubSeq(ls, 1, Len(ls) - 1)

\* a line of the output that is an image line: '!' after the indentation
IsImageOut(l) ==
  LET k == Run(l, 1, {" "}) IN Len(l) > k /\ l[k + 1] = "!"

IsNodeOut(l) == ~IsImageOut(l)

(* ------------------------------ C12 ----------------------------------- *)
\* C12 (format): the output ends with a newline and its lines that are not
\* image lines are, in order, one line per node of the tree in pre-order:
\* '# ' + text for the root, headingLevel '#' + ' ' + text for a heading
\* child, 2 x depth spaces + '- ' + text for a list item, where depth is 0
\* below the root and below a heading and grows by one below a list item.
C12_Format ==
  pc = "serialized" =>
    LET pre == Preorder(nodes, <<result>>)
    IN  /\ markdown # <<>> /\ markdown[Len(markdown)] = "\n"
        /\ SelectSeq(OutLines, IsNodeOut)
             = [k \in 1..Len(pre) |-> OwnLine(nodes, pre[k])]

\* C12's case: a heading below a list item has a list item below it, and
\* the tree has been serialized
C12_Witness ==
  /\ pc = "serialized"
  /\ \E n \in DOMAIN nodes, c \in DOMAIN nodes :
       /\ nodes[n].headingLevel >= 2
       /\ ParentOf(nodes, n) \notin {Null, result}
       /\ nodes[ParentOf(nodes, n)].headingLevel < 2
       /\ ParentOf(nodes, c) = n
       /\ nodes[c].headingLevel < 2

(* ------------------------------ C13 ----------------------------------- *)
\* both sizes of a node are set
SizesSet(n) == n.imageWidth # Undefined /\ n.imageHeight # Undefined

\* the image line of node n without and with the ' =WxH' suffix
ImageOut(heap, n, sized) ==
  Repeat(<<" ">>, IF heap[n].headingLevel >= 2 THEN 0
                  ELSE 2 * ListDepth(heap, n) + 2)
  \o <<"!", "[", "]", "(">> \o heap[n].image
  \o (IF sized
      THEN <<" ", "=">> \o NumToStr(heap[n].imageWidth) \o <<"x">>
           \o NumToStr(heap[n].imageHeight)
      ELSE <<>>)
  \o <<")">>

\* C13 (image lines): the line after the line of a node that is not the root
\* and has an image is its image line, at column 0 for a heading and after
\* 2 x depth + 2 spaces for a list item, with ' =WxH' only when both sizes
\* are set (and then unless one of them is 0), and the line after that is no
\* image line; the line after the line of the root or of a node without
\* image is no image line.
C13_ImageLines ==
  pc = "serialized" =>
    LET pre == Preorder(nodes, <<result>>)
        out == OutLines
        pos == Sorted({i \in 1..Len(out) : IsNodeOut(out[i])})
        IsImageAt(i) == i <= Len(out) /\ IsImageOut(out[i])
    IN  /\ Len(pos) = Len(pre)
        /\ \A k \in 1..Len(pre) :
             LET n == pre[k]
                 sized == /\ SizesSet(nodes[n])
                          /\ nodes[n].imageWidth # 0
                          /\ nodes[n].imageHeight # 0
             IN  IF n # result /\ nodes[n].image # NoImage
                 THEN /\ pos[k] + 1 <= Len(out)
                      /\ out[pos[k] + 1] = ImageOut(nodes, n, sized)
                      /\ ~IsImageAt(pos[k] + 2)
                 ELSE ~IsImageAt(pos[k] + 1)

\* C13's case: a serialized tree with a list item below a list item that
\* has an image with both sizes, a heading with an image without sizes, and
\* a root with an image
C13_Witness ==
  /\ pc = "serialized"
  /\ nodes[result].image # NoImage
  /\ \E n \in DOMAIN nodes, h \in DOMAIN nodes :
       /\ n # result /\ nodes[n].headingLevel < 2
       /\ ListDepth(nodes, n) = 1
       /\ nodes[n].image # NoImage /\ SizesSet(nodes[n])
       /\ nodes[n].imageWidth # 0
       /\ nodes[h].headingLevel >= 2
       /\ nodes[h].image # NoImage /\ ~SizesSet(nodes[h])

(* ------------------- one call of preserveCollapsedState --------------- *)
\* the largest number of nodes of the old and of the new tree
MaxPairNodes == 3

\* Math.min
Min(a, b) == IF a <= b THEN a ELSE b

\* preserveCollapsedState setting collapsed only where the old node is
\* collapsed
RECURSIVE preserveCollapsedOnly(_, _, _)
preserveCollapsedOnly(heap, old, new) ==
  LET o == heap[old]
      h == [heap EXCEPT
              ![new].collapsed = IF o.collapsed = "true" THEN "true" ELSE @,
              ![new].headingLevel =
                IF Truthy(o.headingLevel) THEN o.headingLevel ELSE @,
              ![new].image = IF o.image # NoImage THEN o.image ELSE @,
              ![new].imageWidth =
                IF Truthy(o.imageWidth) THEN o.imageWidth ELSE @,
              ![new].imageHeight =
                IF Truthy(o.imageHeight) THEN o.imageHeight ELSE @]
      minLen == Min(Len(heap[old].children), Len(heap[new].children))
      RECURSIVE Loop(_, _)
      Loop(hp, i) ==
        IF i > minLen THEN hp
        ELSE Loop(preserveCollapsedOnly(hp, heap[old].children[i],
                                        heap[new].children[i]), i + 1)
  IN  Loop(h, 1)

\* preserveCollapsedState copying the image without its sizes
RECURSIVE preserveWithoutSizes(_, _, _)
preserveWithoutSizes(heap, old, new) ==
  LET o == heap[old]
      h == [heap EXCEPT
              ![new].collapsed = IF o.collapsed = "true" THEN "true" ELSE "false",
              ![new].headingLevel =
                IF Truthy(o.headingLevel) THEN o.headingLevel ELSE @,
              ![new].image = IF o.image # NoImage THEN o.image ELSE @]
      minLen == Min(Len(heap[old].children), Len(heap[new].children))
      RECURSIVE Loop(_, _)
      Loop(hp, i) ==
        IF i > minLen THEN hp
        ELSE Loop(preserveWithoutSizes(hp, heap[old].children[i],
                                       heap[new].children[i]), i + 1)
  IN  Loop(h, 1)

\* preserveCollapsedState writing collapsed of the old node as well
RECURSIVE preserveClearingOld(_, _, _)
preserveClearingOld(heap, old, new) ==
  LET o == heap[old]
      h == [heap EXCEPT
              ![old].collapsed =
                IF o.collapsed = "true" THEN "true" ELSE "false",
              ![new].collapsed =
                IF o.collapsed = "true" THEN "true" ELSE "false",
              ![new].headingLevel =
                IF Truthy(o.headingLevel) THEN o.headingLevel ELSE @,
              ![new].image = IF o.image # NoImage THEN o.image ELSE @,
              ![new].imageWidth =
                IF Truthy(o.imageWidth) THEN o.imageWidth ELSE @,
              ![new].imageHeight =
                IF Truthy(o.imageHeight) THEN o.imageHeight ELSE @]
      minLen == Min(Len(heap[old].children), Len(heap[new].children))
      RECURSIVE Loop(_, _)
      Loop(hp, i) ==
        IF i > minLen THEN hp
        ELSE Loop(preserveClearingOld(hp, heap[old].children[i],
                                      heap[new].children[i]), i + 1)
  IN  Loop(h, 1)

\* preserveCollapsedState(oldNode, newNode), both objects of heap: the heap
\* after the call.  oldNode.collapsed || false is true or false; an
\* attribute is copied when the old one is truthy.
RECURSIVE preserveCollapsedState(_, _, _)
preserveCollapsedState(heap, old, new) ==
  LET o == heap[old]
      h == [heap EXCEPT
              ![new].collapsed = IF o.collapsed = "true" THEN "true" ELSE "false",
              ![new].headingLevel =
                IF Truthy(o.headingLevel) THEN o.headingLevel ELSE @,
              ![new].image = IF o.image # NoImage THEN o.image ELSE @,
              ![new].imageWidth =
                IF Truthy(o.imageWidth) THEN o.imageWidth ELSE @,
              ![new].imageHeight =
                IF Truthy(o.imageHeight) THEN o.imageHeight ELSE @]
      minLen == Min(Len(heap[old].children), Len(heap[new].children))
      RECURSIVE Loop(_, _)
      Loop(hp, i) ==
        IF i > minLen THEN hp
        ELSE Loop(preserveCollapsedState(hp, heap[old].children[i],
                                         heap[new].children[i]), i + 1)
  IN  Loop(h, 1)

\* what a node of the old tree may carry: nothing; collapsed, a heading
\* level and an image with sizes; collapsed false and an image whose width
\* is 0; collapsed and a heading level alone
OldStyles ==
  {[collapsed |-> "undefined", headingLevel |-> Undefined, image |-> NoImage,
    imageWidth |-> Undefined, imageHeight |-> Undefined],
   [collapsed |-> "true", headingLevel |-> 2, image |-> <<"p">>,
    imageWidth |-> 12, imageHeight |-> 3],
   [collapsed |-> "false", headingLevel |-> Undefined, image |-> <<"p">>,
    imageWidth |-> 0, imageHeight |-> 3],
   [collapsed |-> "true", headingLevel |-> 3, image |-> NoImage,
    imageWidth |-> Undefined, imageHeight |-> Undefined]}

\* what a node of the freshly parsed tree may carry: a list item, and a
\* heading with an image and its sizes
NewStyles ==
  {[collapsed |-> "undefined", headingLevel |-> Undefined, image |-> NoImage,
    imageWidth |-> Undefined, imageHeight |-> Undefined],
   [collapsed |-> "undefined", headingLevel |-> 4, image |-> <<"q">>,
    imageWidth |-> 5, imageHeight |-> 7]}

\* a tree of k nodes in the heap places base + 1 .. base + k, its root
\* first and of heading level 1
StyledTree(k, par, style, base) ==
  [n \in 1..k |->
     [id |-> base + n, text |-> <<Letters[n]>>,
      children |-> [i \in 1..Len(ChildrenIn(par, n)) |->
                      base + ChildrenIn(par, n)[i]],
      headingLevel |-> IF n = 1 THEN 1 ELSE style[n].headingLevel,
      image |-> style[n].image, imageWidth |-> style[n].imageWidth,
      imageHeight |-> style[n].imageHeight,
      collapsed |-> style[n].collapsed]]

\* the old tree, and after it in the heap the freshly parsed one
InitPreserve ==
  /\ NoParse
  /\ \E k \in 1..MaxPairNodes, m \in 1..MaxPairNodes :
       \E opar \in ParentMaps(k), ostyle \in [1..k -> OldStyles],
          npar \in ParentMaps(m), nstyle \in [1..m -> NewStyles] :
         /\ nodes = StyledTree(k, opar, ostyle, 0)
                      \o StyledTree(m, npar, nstyle, k)
         /\ oldNode = 1
         /\ result = k + 1
  /\ pc = "trees"
  /\ markdown = <<>>
  /\ layout = <<>>
  /\ wrap = <<>>
  /\ origin = <<>>
  /\ ui = <<>>

\* preserveCollapsedState(root, newRoot)
Preserve ==
  /\ pc = "trees"
  /\ nodes' = preserveCollapsedState(nodes, oldNode, result)
  /\ pc' = "preserved"
  /\ UNCHANGED <<lines, rootNode, stack, lastNode, thrown, created, result,
                 markdown, oldNode, layout, wrap, origin, ui>>

NextPreserve == Preserve

SpecPreserve == InitPreserve /\ [][NextPreserve]_vars

(* ================== preserveCollapsedState's claims =================== *)
\* the place of n among the children of p
IndexIn(heap, p, n) ==
  CHOOSE i \in 1..Len(heap[p].children) : heap[p].children[i] = n

\* the index path from the root of its tree to node n
RECURSIVE PathOf(_, _)
PathOf(heap, n) ==
  LET p == ParentOf(heap, n)
  IN  IF p = Null THEN <<>>
      ELSE Append(PathOf(heap, p), IndexIn(heap, p, n))

\* the nodes of the old tree at the index path of n (one or none)
OldAt(n) == {o \in Tree(nodes, oldNode) : PathOf(nodes, o) = PathOf(nodes, n)}

\* oldNode.collapsed or false
CollapsedOrFalse(o) == IF o.collapsed = "true" THEN "true" ELSE "false"

(* ------------------------------ C14 ----------------------------------- *)
\* C14 (positional matching): the call ends on every pair of trees, and
\* after it a node of the new tree whose index path exists in the old tree
\* has collapsed = (collapsed of the old node at that path, or false), and
\* every other node of the new tree is as it was.
C14_Positional ==
  /\ [][pc = "trees" /\ pc' = "preserved" =>
          \A n \in Tree(nodes, result) :
            /\ \A o \in OldAt(n) :
                 nodes'[n].collapsed = CollapsedOrFalse(nodes[o])
            /\ OldAt(n) = {} => nodes'[n] = nodes[n]]_vars
  /\ [](pc = "trees" => ENABLED Preserve)

\* C14's case: after the call, the old root has one child, collapsed, with
\* a child of its own, and the new root has two children without children
C14_Witness ==
  /\ pc = "preserved"
  /\ Len(nodes[oldNode].children) = 1
  /\ nodes[nodes[oldNode].children[1]].collapsed = "true"
  /\ nodes[nodes[oldNode].children[1]].children # <<>>
  /\ Len(nodes[result].children) = 2
  /\ nodes[nodes[result].children[1]].collapsed = "true"
  /\ nodes[nodes[result].children[2]].collapsed = "undefined"

(* ------------------------------ C15 ----------------------------------- *)
\* the attributes of the new node n after the call are those of the old
\* node o where Copy says so and its own before the call elsewhere
CopiedWhere(o, n, CopyNumber(_), CopyImage(_)) ==
  /\ nodes'[n].headingLevel =
       IF CopyNumber(nodes[o].headingLevel) THEN nodes[o].headingLevel
       ELSE nodes[n].headingLevel
  /\ nodes'[n].image =
       IF CopyImage(nodes[o].image) THEN nodes[o].image ELSE nodes[n].image
  /\ nodes'[n].imageWidth =
       IF CopyNumber(nodes[o].imageWidth) THEN nodes[o].imageWidth
       ELSE nodes[n].imageWidth
  /\ nodes'[n].imageHeight =
       IF CopyNumber(nodes[o].imageHeight) THEN nodes[o].imageHeight
       ELSE nodes[n].imageHeight

IsSetNumber(v) == v # Undefined
IsSetImage(v) == v # NoImage
IsNonZero(v) == v # Undefined /\ v # 0

\* C15 as stated (attribute copy): headingLevel, image, imageWidth and
\* imageHeight of a new node at a position of the old tree are the old
\* node's wherever the old node has the attribute set, and its own wherever
\* the old node has not.
C15_CopiesWhenSet ==
  [][pc = "trees" /\ pc' = "preserved" =>
       \A n \in Tree(nodes, result) : \A o \in OldAt(n) :
         CopiedWhere(o, n, IsSetNumber, IsSetImage)]_vars

\* C15 (attribute copy): headingLevel, image, imageWidth and imageHeight of
\* a new node at a position of the old tree are the old node's wherever the
\* old node's attribute is set and is not 0 (not the empty path), and its
\* own elsewhere: a width or height of 0 is not copied.
C15_CopiesWhenTruthy ==
  [][pc = "trees" /\ pc' = "preserved" =>
       \A n \in Tree(nodes, result) : \A o \in OldAt(n) :
         CopiedWhere(o, n, IsNonZero, IsSetImage)]_vars

\* C15's case: after the call, a new node took heading level, image and
\* sizes of the old node at its place, another kept its own ones because
\* the old node at its place has none, and a third kept its width because
\* the old one's is 0
C15_Witness ==
  /\ pc = "preserved"
  /\ \E a \in Tree(nodes, result), b \in Tree(nodes, result),
        c \in Tree(nodes, result) :
       /\ \E o \in OldAt(a) :
            /\ nodes[o].headingLevel = 2 /\ nodes[a].headingLevel = 2
            /\ nodes[a].image = <<"p">> /\ nodes[a].imageWidth = 12
            /\ nodes[a].imageHeight = 3
       /\ \E o \in OldAt(b) :
            /\ nodes[o].image = NoImage /\ nodes[b].image = <<"q">>
            /\ nodes[o].headingLevel = Undefined /\ nodes[b].headingLevel = 4
       /\ \E o \in OldAt(c) :
            /\ nodes[o].imageWidth = 0 /\ nodes[c].imageWidth = 5
            /\ nodes[c].imageHeight = 3

(* ============================ the layout ============================== *)
\* Lengths are in tenths of a pixel, so that fontSize * 0.6 and
\* fontSize * LINE_HEIGHT_RATIO (1.4) are whole numbers: Tenths(px) is a
\* length of px pixels.  Font sizes, paddings and maxWidth are whole pixels.
NODE_PADDING_X == 16
NODE_PADDING_Y == 8
IMAGE_THUMBNAIL_WIDTH == 120
IMAGE_THUMBNAIL_HEIGHT == 80
IMAGE_PADDING == 4
MAX_NODE_WIDTH == 300

Tenths(px) == 10 * px

\* Math.floor(a / b) for b > 0
Floor(a, b) == IF a >= 0 THEN a \div b ELSE -((b - 1 - a) \div b)

\* measureTextWidth(text, fontSize)
measureTextWidth(text, fontSize) ==
  Len(text) * fontSize * 6 + Tenths(NODE_PADDING_X * 2)

\* charsPerLine ignoring the padding
CharsPerLineNoPadding(fontSize, maxWidth) ==
  Max({1, Floor(Tenths(maxWidth), fontSize * 6)})

\* charsPerLine without Math.max(1, ...)
CharsPerLineNoMin(fontSize, maxWidth) ==
  Floor(Tenths(maxWidth - NODE_PADDING_X * 2), fontSize * 6)

\* wrapText's charsPerLine: availableWidth / charWidth, rounded down, at
\* least 1
CharsPerLine(fontSize, maxWidth) ==
  Max({1, Floor(Tenths(maxWidth - NODE_PADDING_X * 2), fontSize * 6)})

\* wrapText's loop and the push after it
RECURSIVE WrapLoop(_, _)
WrapLoop(remaining, charsPerLine) ==
  IF Len(remaining) > charsPerLine
  THEN <<SubSeq(remaining, 1, charsPerLine)>>
       \o WrapLoop(Drop(remaining, charsPerLine + 1), charsPerLine)
  ELSE IF Len(remaining) > 0 THEN <<remaining>> ELSE <<>>

\* wrapText(text, fontSize, maxWidth)
wrapText(text, fontSize, maxWidth) ==
  WrapLoop(text, CharsPerLine(fontSize, maxWidth))

\* getFontSize(depth)
getFontSize(depth) == IF depth = 0 THEN 16 ELSE IF depth = 1 THEN 14 ELSE 13

\* lineHeight = fontSize * LINE_HEIGHT_RATIO
LineHeight(fontSize) == fontSize * 14

\* layoutTree's rawWidth
RawWidth(n, fontSize) ==
  Max({measureTextWidth(n.text, fontSize), Tenths(60)})

\* layoutTree's width without the minimum of 60
NodeWidthNoMin(n, fontSize) ==
  LET imgW  == IF Truthy(n.imageWidth) THEN n.imageWidth
               ELSE IMAGE_THUMBNAIL_WIDTH
      width == Min(measureTextWidth(n.text, fontSize), Tenths(MAX_NODE_WIDTH))
  IN  IF n.image # NoImage
      THEN Max({width, Tenths(imgW + NODE_PADDING_X * 2)}) ELSE width

\* layoutTree's width
NodeWidth(n, fontSize) ==
  LET imgW  == IF Truthy(n.imageWidth) THEN n.imageWidth
               ELSE IMAGE_THUMBNAIL_WIDTH
      width == Min(RawWidth(n, fontSize), Tenths(MAX_NODE_WIDTH))
  IN  IF n.image # NoImage
      THEN Max({width, Tenths(imgW + NODE_PADDING_X * 2)}) ELSE width

\* layoutTree's textLines
TextLines(n, fontSize) ==
  IF RawWidth(n, fontSize) > Tenths(MAX_NODE_WIDTH)
  THEN wrapText(n.text, fontSize, MAX_NODE_WIDTH) ELSE <<n.text>>

\* layoutTree's height with the thumbnail height for every image
NodeHeightThumbnail(n, textLines, fontSize) ==
  LET textBlockHeight ==
        Len(textLines) * LineHeight(fontSize) + Tenths(NODE_PADDING_Y * 2)
  IN  IF n.image # NoImage
      THEN textBlockHeight + Tenths(IMAGE_THUMBNAIL_HEIGHT + IMAGE_PADDING)
      ELSE textBlockHeight

\* layoutTree's height
NodeHeight(n, textLines, fontSize) ==
  LET imgH == IF Truthy(n.imageHeight) THEN n.imageHeight
              ELSE IMAGE_THUMBNAIL_HEIGHT
      textBlockHeight ==
        Len(textLines) * LineHeight(fontSize) + Tenths(NODE_PADDING_Y * 2)
  IN  IF n.image # NoImage
      THEN textBlockHeight + Tenths(imgH + IMAGE_PADDING)
      ELSE textBlockHeight

\* the children layoutTree goes into, were collapsed ignored
LaidChildrenAll(n) == n.children

\* the children layoutTree goes into: none below a collapsed node
LaidChildren(n) ==
  IF n.collapsed # "true" /\ Len(n.children) > 0 THEN n.children ELSE <<>>

\* the branch index of every child being its index
BranchOfIndex(depth, i, branchIndex) == i

\* bi = depth === 0 ? i : branchIndex
BranchOf(depth, i, branchIndex) == IF depth = 0 THEN i ELSE branchIndex

\* layoutTree(node, depth, branchIndex), node an object of heap: the layout
\* nodes made, as a function of the model node each was made for; children
\* holds the model nodes of the child layout nodes.  null is Null, and
\* NoImage for the image.
RECURSIVE layoutTree(_, _, _, _)
layoutTree(heap, node, depth, branchIndex) ==
  LET n == heap[node]
      fontSize == getFontSize(depth)
      textLines == TextLines(n, fontSize)
      kids == LaidChildren(n)
      layoutNode ==
        [id |-> n.id, text |-> n.text, image |-> n.image,
         imageWidth |-> IF Truthy(n.imageWidth) THEN n.imageWidth ELSE Null,
         imageHeight |-> IF Truthy(n.imageHeight) THEN n.imageHeight ELSE Null,
         collapsed |-> IF n.collapsed = "true" THEN "true" ELSE "false",
         headingLevel |-> IF Truthy(n.headingLevel) THEN n.headingLevel ELSE 0,
         textLines |-> textLines, width |-> NodeWidth(n, fontSize),
         height |-> NodeHeight(n, textLines, fontSize), x |-> 0, y |-> 0,
         depth |-> depth, branchIndex |-> branchIndex, children |-> kids,
         hasChildren |-> Len(n.children) > 0]
      RECURSIVE Map(_)
      Map(i) ==
        IF i > Len(kids) THEN <<>>
        ELSE layoutTree(heap, kids[i], depth + 1,
                        BranchOf(depth, i - 1, branchIndex)) @@ Map(i + 1)
  IN  (node :> layoutNode) @@ Map(1)

(* ------------------ computeSubtreeHeight and positionNodes ------------ *)
NODE_GAP_X == 60
NODE_GAP_Y == 16

\* computeSubtreeHeight without the gaps between the children
RECURSIVE computeSubtreeHeightNoGap(_, _)
computeSubtreeHeightNoGap(lay, n) ==
  LET kids == lay[n].children
      RECURSIVE Total(_)
      Total(i) ==
        IF i > Len(kids) THEN 0
        ELSE computeSubtreeHeightNoGap(lay, kids[i]) + Total(i + 1)
  IN  IF Len(kids) = 0 THEN lay[n].height
      ELSE Max({lay[n].height, Total(1)})

\* computeSubtreeHeight(layoutNode), layoutNode the layout node of n in lay
RECURSIVE computeSubtreeHeight(_, _)
computeSubtreeHeight(lay, n) ==
  LET kids == lay[n].children
      RECURSIVE Total(_)
      Total(i) ==
        IF i > Len(kids) THEN 0
        ELSE computeSubtreeHeight(lay, kids[i]) + Total(i + 1)
  IN  IF Len(kids) = 0 THEN lay[n].height
      ELSE Max({lay[n].height,
                Total(1) + Tenths((Len(kids) - 1) * NODE_GAP_Y)})

\* layoutNode.y at the top of its band
NodeYTop(y, subtreeHeight, height) == y

\* layoutNode.y with the two halves exchanged
NodeYReversed(y, subtreeHeight, height) ==
  y + height \div 2 - subtreeHeight \div 2

\* layoutNode.y = y + subtreeHeight / 2 - layoutNode.height / 2; every
\* height is an even number of tenths, so the halves are whole
NodeY(y, subtreeHeight, height) == y + subtreeHeight \div 2 - height \div 2

\* childX = x + layoutNode.width + NODE_GAP_X
ChildX(x, width) == x + width + Tenths(NODE_GAP_X)

\* childY advanced without the gap
NextChildYNoGap(childY, childSubtreeHeight) == childY + childSubtreeHeight

\* childY advanced by the gap alone
NextChildYGapOnly(childY, childSubtreeHeight) == childY + Tenths(NODE_GAP_Y)

\* childY += childSubtreeHeight + NODE_GAP_Y
NextChildY(childY, childSubtreeHeight) ==
  childY + childSubtreeHeight + Tenths(NODE_GAP_Y)

\* the two assignments, with the height set to the subtree height as well
PlacedResized(lay, n, x, y) ==
  [lay EXCEPT ![n].x = x, ![n].height = computeSubtreeHeight(lay, n),
              ![n].y = NodeY(y, computeSubtreeHeight(lay, n), lay[n].height)]

\* layoutNode.x = x; layoutNode.y = ...
Placed(lay, n, x, y) ==
  [lay EXCEPT ![n].x = x,
              ![n].y = NodeY(y, computeSubtreeHeight(lay, n), lay[n].height)]

\* positionNodes(layoutNode, x, y), layoutNode the layout node of n in lay:
\* the layout nodes after the call
RECURSIVE positionNodes(_, _, _, _)
positionNodes(lay, n, x, y) ==
  LET kids == lay[n].children
      childX == ChildX(x, lay[n].width)
      RECURSIVE Loop(_, _, _)
      Loop(l, i, childY) ==
        IF i > Len(kids) THEN l
        ELSE LET childSubtreeHeight == computeSubtreeHeight(l, kids[i])
             IN  Loop(positionNodes(l, kids[i], childX, childY), i + 1,
                      NextChildY(childY, childSubtreeHeight))
  IN  Loop(Placed(lay, n, x, y), 1, y)

(* -------------------------- one call of layoutTree -------------------- *)
\* a text of len characters
TextOf(len) == [i \in 1..len |-> Letters[(i % 6) + 1]]

\* the text lengths about the limits of the three font sizes: a width below
\* 60 up to 2, 3 and 3 characters, wrapping from 28, 32 and 35 characters on
TextLengths == {0, 2, 3, 4, 27, 28, 31, 32, 34, 35, 70}

\* the image attributes of a node given to the layout: none, sizes without
\* an image, an image without sizes, with sizes, and with a width beyond
\* MAX_NODE_WIDTH and a height of 0
LayoutImages ==
  {[image |-> NoImage, imageWidth |-> Undefined, imageHeight |-> Undefined],
   [image |-> NoImage, imageWidth |-> 200, imageHeight |-> 50],
   [image |-> <<"p">>, imageWidth |-> Undefined, imageHeight |-> Undefined],
   [image |-> <<"p">>, imageWidth |-> 200, imageHeight |-> 50],
   [image |-> <<"p">>, imageWidth |-> 400, imageHeight |-> 0]}

\* one node of the tree has any text length, image and collapsed flag ...
FeaturedStyles ==
  [len : TextLengths, img : LayoutImages, collapsed : {"undefined", "true"}]

\* ... and the others are short without image, open or collapsed, or long
\* with an image
OtherStyles ==
  {[len |-> 1, img |-> [image |-> NoImage, imageWidth |-> Undefined,
                        imageHeight |-> Undefined], collapsed |-> "false"],
   [len |-> 1, img |-> [image |-> NoImage, imageWidth |-> Undefined,
                        imageHeight |-> Undefined], collapsed |-> "true"],
   [len |-> 70, img |-> [image |-> <<"p">>, imageWidth |-> 200,
                         imageHeight |-> 50], collapsed |-> "undefined"]}

\* a heap holding one tree: node 1 is the root
LayoutHeap(k, par, style) ==
  [n \in 1..k |->
     [id |-> n, text |-> TextOf(style[n].len),
      children |-> ChildrenIn(par, n),
      headingLevel |-> IF n = 1 THEN 1 ELSE Undefined,
      image |-> style[n].img.image, imageWidth |-> style[n].img.imageWidth,
      imageHeight |-> style[n].img.imageHeight,
      collapsed |-> style[n].collapsed]]

InitLayout ==
  /\ NoParse
  /\ \E k \in 1..MaxNodes :
       \E par \in ParentMaps(k), f \in 1..k, fs \in FeaturedStyles :
         \E os \in [(1..k) \ {f} -> OtherStyles] :
           nodes = LayoutHeap(k, par,
                              [n \in 1..k |-> IF n = f THEN fs ELSE os[n]])
  /\ result = 1
  /\ pc = "tree"
  /\ markdown = <<>>
  /\ oldNode = Null
  /\ layout = <<>>
  /\ wrap = <<>>
  /\ origin = <<>>
  /\ ui = <<>>

\* layout = layoutTree(root, 0, b)
Layout ==
  /\ pc = "tree"
  /\ \E b \in 0..1 : layout' = layoutTree(nodes, result, 0, b)
  /\ pc' = "laid"
  /\ UNCHANGED <<lines, nodes, rootNode, stack, lastNode, thrown, created,
                 result, markdown, oldNode, wrap, origin, ui>>

\* the origins: (0, 0) and a point off both axes
Origins == {<<0, 0>>, <<Tenths(40), Tenths(-20)>>}

\* positionNodes(layout, x, y)
Position ==
  /\ pc = "laid"
  /\ \E o \in Origins :
       /\ origin' = o
       /\ layout' = positionNodes(layout, result, o[1], o[2])
  /\ pc' = "positioned"
  /\ UNCHANGED <<lines, nodes, rootNode, stack, lastNode, thrown, created,
                 result, markdown, oldNode, wrap, ui>>

\* the tree is laid out and positioned, or serialized
NextLayout == Layout \/ Position \/ Serialize

SpecLayout == InitLayout /\ [][NextLayout]_vars

(* ========================= layoutTree's claims ======================== *)
\* the proper ancestors of node n
RECURSIVE Ancestors(_, _)
Ancestors(heap, n) ==
  LET p == ParentOf(heap, n)
  IN  IF p = Null THEN {} ELSE {p} \cup Ancestors(heap, p)

\* the nodes of the tree without a collapsed proper ancestor
Visible ==
  {n \in Tree(nodes, result) :
     \A a \in Ancestors(nodes, n) : nodes[a].collapsed # "true"}

\* the layout nodes reached from the layout node of n through children
RECURSIVE LaidTree(_)
LaidTree(n) ==
  {n} \cup UNION {LaidTree(layout[n].children[i]) :
                    i \in 1..Len(layout[n].children)}

(* ------------------------------ C16 ----------------------------------- *)
\* C16 (collapse exclusion): the layout tree holds a layout node for
\* exactly the model nodes without a collapsed proper ancestor, each with
\* the id of its model node and with the layout nodes of its model
\* children, in their order, as children, unless it is collapsed: then it
\* has no layout children; hasChildren tells whether the model node has
\* children, collapsed or not.
C16_CollapseExclusion ==
  pc = "laid" =>
    /\ LaidTree(result) = Visible
    /\ DOMAIN layout = Visible
    /\ \A n \in Visible :
         /\ layout[n].id = nodes[n].id
         /\ layout[n].children =
              IF nodes[n].collapsed = "true" THEN <<>> ELSE nodes[n].children
         /\ layout[n].hasChildren = (nodes[n].children # <<>>)

\* C16's case: a laid out tree with a collapsed node that has children,
\* so that a node of the tree has no layout node, and an open node with a
\* child beside it
C16_Witness ==
  /\ pc = "laid"
  /\ \E c \in Visible, o \in Visible :
       /\ nodes[c].collapsed = "true"
       /\ nodes[c].children # <<>>
       /\ layout[c].children = <<>> /\ layout[c].hasChildren
       /\ o # c /\ nodes[o].collapsed # "true"
       /\ Len(layout[o].children) > 0
  /\ Visible # Tree(nodes, result)

(* ------------------------------ C17 ----------------------------------- *)
\* C17 (depth and branch index): after layoutTree(root, 0, b) the root has
\* depth 0 and every other layout node has the depth of its parent plus 1,
\* that is the length of its index path; the i-th child of the root
\* (from 0) has branch index i and every deeper node the branch index of
\* its ancestor that is a child of the root.
C17_DepthAndBranch ==
  pc = "laid" =>
    /\ layout[result].depth = 0
    /\ \A n \in DOMAIN layout \ {result} :
         LET path == PathOf(nodes, n)
         IN  /\ layout[n].depth = layout[ParentOf(nodes, n)].depth + 1
             /\ layout[n].depth = Len(path)
             /\ layout[n].branchIndex = path[1] - 1

\* C17's case: a laid out tree with a node at depth 2 below the second
\* child of the root
C17_Witness ==
  /\ pc = "laid"
  /\ \E n \in DOMAIN layout :
       /\ layout[n].depth = 2
       /\ PathOf(nodes, n)[1] = 2
       /\ layout[n].branchIndex = 1

(* --------------------------- one call of wrapText --------------------- *)
\* the longest text wrapped
MaxTextLen == 12

\* wrapText(text, fontSize, maxWidth): lines is its array of lines, wrap
\* holds its arguments, charsPerLine and remaining.  The font sizes are
\* those of the layout and a large one, the widths run from none over less
\* than the padding to MAX_NODE_WIDTH, a negative one included.
InitWrap ==
  /\ rootNode = Null
  /\ stack = <<>>
  /\ lastNode = Null
  /\ thrown = FALSE
  /\ created = <<>>
  /\ nodes = <<>>
  /\ result = Null
  /\ markdown = <<>>
  /\ oldNode = Null
  /\ layout = <<>>
  /\ origin = <<>>
  /\ ui = <<>>
  /\ lines = <<>>
  /\ pc = "wrap"
  /\ \E len \in 0..MaxTextLen, fontSize \in {13, 14, 16, 40},
        maxWidth \in {-20, 0, 40, 80, 100, MAX_NODE_WIDTH} :
       wrap = [text |-> TextOf(len), fontSize |-> fontSize,
               maxWidth |-> maxWidth,
               charsPerLine |-> CharsPerLine(fontSize, maxWidth),
               remaining |-> TextOf(len)]

\* the body of the while loop
WrapPush ==
  /\ pc = "wrap"
  /\ Len(wrap.remaining) > wrap.charsPerLine
  /\ lines' = Append(lines, SubSeq(wrap.remaining, 1, wrap.charsPerLine))
  /\ wrap' = [wrap EXCEPT !.remaining = Drop(@, wrap.charsPerLine + 1)]
  /\ UNCHANGED <<nodes, rootNode, stack, lastNode, thrown, created, pc,
                 result, markdown, oldNode, layout, origin, ui>>

\* the end of the loop, the push of what remains, and the return
WrapReturn ==
  /\ pc = "wrap"
  /\ ~(Len(wrap.remaining) > wrap.charsPerLine)
  /\ lines' = IF Len(wrap.remaining) > 0 THEN Append(lines, wrap.remaining)
              ELSE lines
  /\ pc' = "wrapped"
  /\ UNCHANGED <<nodes, rootNode, stack, lastNode, thrown, created, result,
                 markdown, oldNode, layout, wrap, origin, ui>>

NextWrap == WrapPush \/ WrapReturn

SpecWrap == InitWrap /\ [][NextWrap]_vars

\* the call goes on while it can: nothing else runs between two iterations
SpecWrapFair == SpecWrap /\ WF_vars(NextWrap)

(* ------------------------------ C18 ----------------------------------- *)
\* max(1, floor((maxWidth - 2 paddingX) / (0.6 fontSize))): the largest
\* number of characters whose width is within maxWidth less the padding,
\* and 1 if there is none
ClaimedCharsPerLine ==
  Max({1} \cup {c \in 1..(10 * wrap.maxWidth) :
                  c * 6 * wrap.fontSize
                    <= 10 * (wrap.maxWidth - 2 * NODE_PADDING_X)})

\* the lines returned joined are the text, every line but the last has
\* charsPerLine characters and the last has 1 to charsPerLine
WrapsInChunks ==
  /\ JoinWith(lines, <<>>) = wrap.text
  /\ \A i \in 1..(Len(lines) - 1) : Len(lines[i]) = ClaimedCharsPerLine
  /\ lines # <<>> =>
       /\ Len(lines[Len(lines)]) >= 1
       /\ Len(lines[Len(lines)]) <= ClaimedCharsPerLine

\* C18 as stated (wrapText): chunks as above, and a text of at most
\* charsPerLine characters is returned as a single line.
C18_SingleLineUpTo ==
  pc = "wrapped" =>
    /\ WrapsInChunks
    /\ Len(wrap.text) <= ClaimedCharsPerLine => lines = <<wrap.text>>

\* C18 (wrapText): chunks as above, a text of 1 to charsPerLine characters
\* is returned as a single line, and the empty text as no line.
C18_Chunks ==
  pc = "wrapped" =>
    /\ WrapsInChunks
    /\ (Len(wrap.text) >= 1 /\ Len(wrap.text) <= ClaimedCharsPerLine)
         => lines = <<wrap.text>>
    /\ wrap.text = <<>> => lines = <<>>

\* C18's case: a text returned in three lines or more of more than one
\* character, the last one shorter
C18_Witness ==
  /\ pc = "wrapped"
  /\ Len(lines) >= 3
  /\ wrap.charsPerLine > 1
  /\ Len(lines[Len(lines)]) < wrap.charsPerLine

(* ------------------------------ C19 ----------------------------------- *)
\* the font size of a depth as the specification gives it
FontOfDepth(depth) == CASE depth = 0 -> 16 [] depth = 1 -> 14 [] OTHER -> 13

\* length x 0.6 x fontSize + 2 paddingX of layout node n, in tenths
UnclampedWidth(n) ==
  Len(layout[n].text) * 6 * FontOfDepth(layout[n].depth) + 320

\* the width of a text alone: the unclamped width, at least 60, at most 300
ClampedWidth(n) ==
  IF UnclampedWidth(n) < 600 THEN 600
  ELSE IF UnclampedWidth(n) > 3000 THEN 3000 ELSE UnclampedWidth(n)

\* C19 (width clamp): a layout node without image has the unclamped width
\* of its text brought into 60..300; the textLines of a layout node are
\* more than one exactly when the unclamped width exceeds 300 and are the
\* text alone otherwise, and joined they are the text.
C19_WidthClamp ==
  pc = "laid" =>
    \A n \in DOMAIN layout :
      /\ layout[n].image = NoImage =>
           /\ layout[n].width = ClampedWidth(n)
           /\ layout[n].width >= 600 /\ layout[n].width <= 3000
      /\ Len(layout[n].textLines) > 1 <=> UnclampedWidth(n) > 3000
      /\ UnclampedWidth(n) <= 3000 => layout[n].textLines = <<layout[n].text>>
      /\ JoinWith(layout[n].textLines, <<>>) = layout[n].text

\* C19's case: a laid out tree with a node without image whose text is
\* wrapped and one whose width is raised to 60
C19_Witness ==
  /\ pc = "laid"
  /\ \E a \in DOMAIN layout, b \in DOMAIN layout :
       /\ layout[a].image = NoImage /\ layout[b].image = NoImage
       /\ Len(layout[a].textLines) > 1 /\ layout[a].width = 3000
       /\ UnclampedWidth(b) < 600 /\ layout[b].width = 600

(* ------------------------------ C20 ----------------------------------- *)
\* lines x fontSize x 1.4 + 2 paddingY of layout node n, in tenths
TextBlockHeight(n) ==
  Len(layout[n].textLines) * 14 * FontOfDepth(layout[n].depth) + 160

\* the height and the least width of layout node n, an image taking h and
\* w pixels
SizedWith(n, w, h) ==
  IF nodes[n].image # NoImage
  THEN /\ layout[n].height = TextBlockHeight(n) + 10 * (h + 4)
       /\ layout[n].width >= 10 * (w + 32)
  ELSE /\ layout[n].height = TextBlockHeight(n)
       /\ layout[n].width = ClampedWidth(n)

\* C20 as stated (height): the height is that of the text lines, with an
\* image grown by imageHeight if set, else 80, plus the image padding, the
\* width then being at least imageWidth if set, else 120, plus the padding;
\* without image the sizes have no effect.
C20_HeightWhenSet ==
  pc = "laid" =>
    \A n \in DOMAIN layout :
      SizedWith(n,
                IF nodes[n].imageWidth # Undefined THEN nodes[n].imageWidth
                ELSE 120,
                IF nodes[n].imageHeight # Undefined THEN nodes[n].imageHeight
                ELSE 80)

\* C20 (height): the height is that of the text lines, with an image grown
\* by imageHeight if set and not 0, else 80, plus the image padding, the
\* width then being at least imageWidth if set and not 0, else 120, plus
\* the padding; without image the sizes have no effect.
C20_Height ==
  pc = "laid" =>
    \A n \in DOMAIN layout :
      SizedWith(n,
                IF IsNonZero(nodes[n].imageWidth) THEN nodes[n].imageWidth
                ELSE 120,
                IF IsNonZero(nodes[n].imageHeight) THEN nodes[n].imageHeight
                ELSE 80)

\* C20's case: a laid out tree with an image of 200 x 50 on a wrapped text,
\* and a node without image
C20_Witness ==
  /\ pc = "laid"
  /\ \E a \in DOMAIN layout, b \in DOMAIN layout :
       /\ nodes[a].image # NoImage /\ nodes[a].imageHeight = 50
       /\ Len(layout[a].textLines) > 1
       /\ layout[a].height = TextBlockHeight(a) + 540
       /\ nodes[b].image = NoImage

(* ============ computeSubtreeHeight's and positionNodes' claims ======== *)
\* the subtree height of the layout node of n
SubtreeHeightOf(n) == computeSubtreeHeight(layout, n)

\* the sum of the subtree heights of the layout nodes of a sequence
RECURSIVE SumOfSubtreeHeights(_)
SumOfSubtreeHeights(seq) ==
  IF seq = <<>> THEN 0
  ELSE SubtreeHeightOf(Head(seq)) + SumOfSubtreeHeights(Tail(seq))

\* the subtree heights of the layout children of n and the gaps of 16
\* between them
ChildrenAndGaps(n) ==
  SumOfSubtreeHeights(layout[n].children)
  + (Len(layout[n].children) - 1) * 160

(* ------------------------------ C21 ----------------------------------- *)
\* C21 (subtree height): the subtree height of a layout node without layout
\* children is its height, and that of any other the larger of its height
\* and the sum of its children's subtree heights plus a gap between each
\* two; so it is never less than the height nor than that sum.
C21_SubtreeHeight ==
  pc = "laid" =>
    \A n \in DOMAIN layout :
      /\ layout[n].children = <<>> => SubtreeHeightOf(n) = layout[n].height
      /\ layout[n].children # <<>> =>
           /\ SubtreeHeightOf(n)
                = Max({layout[n].height, ChildrenAndGaps(n)})
           /\ SubtreeHeightOf(n) >= ChildrenAndGaps(n)
      /\ SubtreeHeightOf(n) >= layout[n].height

\* C21's case: a laid out tree with a node higher than its children
\* together, and a node with two children that is lower than they are
C21_Witness ==
  /\ pc = "laid"
  /\ \E a \in DOMAIN layout, b \in DOMAIN layout :
       /\ layout[a].children # <<>>
       /\ layout[a].height > ChildrenAndGaps(a)
       /\ Len(layout[b].children) = 2
       /\ layout[b].height < ChildrenAndGaps(b)

(* ------------------------------ C22 ----------------------------------- *)
\* the children of the parent of n that come before n
EarlierSiblings(n) ==
  LET p == ParentOf(nodes, n)
  IN  SubSeq(layout[p].children, 1, IndexIn(nodes, p, n) - 1)

\* the top of the band of n: the origin's y for the root, and else the top
\* of the parent's band plus, for every earlier sibling, its subtree height
\* and a gap of 16
RECURSIVE BandTop(_)
BandTop(n) ==
  IF n = result THEN origin[2]
  ELSE BandTop(ParentOf(nodes, n))
       + SumOfSubtreeHeights(EarlierSiblings(n))
       + Len(EarlierSiblings(n)) * 160

\* the sum of width + 60 over the proper ancestors of n
RECURSIVE AncestorWidths(_)
AncestorWidths(n) ==
  IF n = result THEN 0
  ELSE LET p == ParentOf(nodes, n)
       IN  AncestorWidths(p) + layout[p].width + 600

\* C22 (positions): after positionNodes(root, x, y) every layout node lies
\* at y = band top + subtreeHeight / 2 - height / 2, the root at x and its
\* band top at y, every child at the x of its parent + the parent's width +
\* 60 and its band below those of its earlier siblings, a gap of 16 after
\* each; so the x of a node is x plus the sum of width + 60 over its
\* proper ancestors.
C22_Positions ==
  pc = "positioned" =>
    \A n \in DOMAIN layout :
      /\ 2 * layout[n].y
           = 2 * BandTop(n) + SubtreeHeightOf(n) - layout[n].height
      /\ IF n = result THEN layout[n].x = origin[1]
         ELSE layout[n].x = layout[ParentOf(nodes, n)].x
                              + layout[ParentOf(nodes, n)].width + 600
      /\ layout[n].x = origin[1] + AncestorWidths(n)

\* C22's case: positioned away from (0, 0), a node at depth 2 and a node
\* that has an earlier sibling with a child, the root lower than its
\* children together
C22_Witness ==
  /\ pc = "positioned"
  /\ origin # <<0, 0>>
  /\ layout[result].height < SubtreeHeightOf(result)
  /\ \E n \in DOMAIN layout, m \in DOMAIN layout \ {result} :
       /\ layout[n].depth = 2
       /\ EarlierSiblings(m) # <<>>
       /\ layout[EarlierSiblings(m)[1]].children # <<>>

(* ------------------------------ C23 ----------------------------------- *)
\* C23 (siblings): after positionNodes, of two layout children of a node
\* that follow each other the later one begins at least 16 below the end of
\* the earlier one, so the children lie in increasing y in their order.
C23_SiblingsStacked ==
  pc = "positioned" =>
    \A p \in DOMAIN layout :
      LET kids == layout[p].children
      IN  /\ \A i \in 1..(Len(kids) - 1) :
               layout[kids[i + 1]].y
                 >= layout[kids[i]].y + layout[kids[i]].height + 160
          /\ \A i \in 1..Len(kids), j \in 1..Len(kids) :
               i < j => layout[kids[i]].y < layout[kids[j]].y

\* C23's case: positioned, two children following each other of which the
\* earlier has a child and is lower than its subtree
C23_Witness ==
  /\ pc = "positioned"
  /\ \E q \in DOMAIN layout :
       /\ Len(layout[q].children) = 2
       /\ layout[layout[q].children[1]].children # <<>>
       /\ layout[layout[q].children[1]].height
            < SubtreeHeightOf(layout[q].children[1])

(* ------------------------------ C24 ----------------------------------- *)
\* C24 (frame): serializeToMarkdown, layoutTree and positionNodes leave the
\* tree of model nodes as it is (parseMarkdown is given a text, no tree);
\* serializeToMarkdown leaves the layout as it is; positionNodes keeps the
\* layout nodes and all their fields but x and y, and every subtree height
\* is after it what it was before.
C24_Frame ==
  [][/\ nodes' = nodes
     /\ pc' = "serialized" => layout' = layout
     /\ pc' = "positioned" =>
          /\ DOMAIN layout' = DOMAIN layout
          /\ \A n \in DOMAIN layout :
               /\ layout'[n] = [layout[n] EXCEPT !.x = layout'[n].x,
                                                 !.y = layout'[n].y]
               /\ computeSubtreeHeight(layout', n)
                    = computeSubtreeHeight(layout, n)]_vars

\* C24's case: positioned, a node with children lower than its subtree has
\* been moved in x and in y
C24_Witness ==
  /\ pc = "positioned"
  /\ \E n \in DOMAIN layout :
       /\ layout[n].children # <<>>
       /\ layout[n].height < SubtreeHeightOf(n)
       /\ layout[n].x # 0 /\ layout[n].y # 0

MaxTextLines == 3

\* the lines of the texts of a reparse: headings, a list item, and the two
\* forms of an image line
ReparseLines ==
  {HeadingLineOf(k, LabelA) : k \in 1..3}
  \cup {ListLineOf(0, LabelB), PlainImageLine, SizedImageLine}

\* the texts, as their lines
Texts == UNION {[1..k -> ReparseLines] : k \in 1..MaxTextLines}

\* a heap moved up by k places
ShiftHeap(heap, k) ==
  [n \in 1..Len(heap) |->
     [heap[n] EXCEPT !.children = [i \in 1..Len(@) |-> @[i] + k]]]

\* root is the tree parsed from the old text and newRoot the one just
\* parsed from the new text, whose lines are kept in lines
InitReconcile ==
  /\ rootNode = Null
  /\ stack = <<>>
  /\ lastNode = Null
  /\ thrown = FALSE
  /\ created = <<>>
  /\ \E old \in Texts, new \in Texts :
       LET o == parseMarkdown(JoinWith(old, <<"\n">>), 0)
           n == parseMarkdown(JoinWith(new, <<"\n">>), 0)
       IN  /\ nodes = o.heap \o ShiftHeap(n.heap, Len(o.heap))
           /\ oldNode = o.node
           /\ result = n.node + Len(o.heap)
           /\ lines = new
  /\ pc = "trees"
  /\ markdown = <<>>
  /\ layout = <<>>
  /\ wrap = <<>>
  /\ origin = <<>>
  /\ ui = <<>>

\* markdown = serializeToMarkdown(newRoot) after the reconciliation
Save ==
  /\ pc = "preserved"
  /\ markdown' = serializeToMarkdown(nodes, result)
  /\ pc' = "saved"
  /\ UNCHANGED <<lines, nodes, rootNode, stack, lastNode, thrown, created,
                 result, oldNode, layout, wrap, origin, ui>>

NextReconcile == Preserve \/ Save

SpecReconcile == InitReconcile /\ [][NextReconcile]_vars

(* ------------------------------ C26 ----------------------------------- *)
\* C26 (reconciliation keeps the new text): the serialization of the tree
\* parsed from the new text and reconciled with the tree of the old text
\* parses to a tree with the text, headingLevel, children and images of the
\* tree the new text parses to.
C26_NewTextKept ==
  pc = "saved" =>
    LET again == parseMarkdown(markdown, 0)
        fresh == parseMarkdown(JoinWith(lines, <<"\n">>), 0)
    IN  ShapeWithImages(again.heap, again.node)
          = ShapeWithImages(fresh.heap, fresh.node)

(* ------------------------------ C27 ----------------------------------- *)
\* C27 (frame of the reconciliation): preserveCollapsedState leaves every
\* node of the old tree as it is, makes and drops no node, and changes of a
\* node of the new tree nothing but collapsed, headingLevel, image,
\* imageWidth and imageHeight, and nothing at all where the old tree has no
\* node at its index path.
C27_PreserveFrame ==
  [][pc = "trees" /\ pc' = "preserved" =>
       /\ Len(nodes') = Len(nodes)
       /\ \A o \in Tree(nodes, oldNode) : nodes'[o] = nodes[o]
       /\ \A n \in Tree(nodes, result) :
            /\ nodes'[n].id = nodes[n].id
            /\ nodes'[n].text = nodes[n].text
            /\ nodes'[n].children = nodes[n].children
            /\ DOMAIN nodes'[n] = DOMAIN nodes[n]
            /\ OldAt(n) = {} => nodes'[n] = nodes[n]]_vars

\* C27's case: after the call on an old tree of three nodes, one of them
\* collapsed, a new node is collapsed and has children, and another new
\* node has none of the old tree at its place
C27_Witness ==
  /\ pc = "preserved"
  /\ Cardinality(Tree(nodes, oldNode)) = 3
  /\ \E o \in Tree(nodes, oldNode) : nodes[o].collapsed = "true"
  /\ \E n \in Tree(nodes, result), m \in Tree(nodes, result) :
       /\ nodes[n].collapsed = "true" /\ nodes[n].children # <<>>
       /\ OldAt(m) = {}

(* ------------------------------ C28 ----------------------------------- *)
\* the lines after the last H1 of ls that are a heading of level 2 to 4 or
\* a list item
NodeLinesAfterRoot(ls) ==
  {j \in (LastH1(ls) + 1)..Len(ls) :
     LevelOfLine(ls[j]) \in 2..4 \/ IsListLine(ls[j])}

\* C28 (one node a line, in document order): when the text has an H1 line,
\* the returned tree has one node for the last H1 line and one for every
\* level 2-4 heading line and list-item line after it, and no other node;
\* and its pre-order traversal lists the nodes in the order of their lines.
C28_OneNodePerLine ==
  pc = "done" /\ LastH1(lines) > 0 =>
    LET pre == Preorder(nodes, <<result>>)
    IN  /\ Len(pre) = 1 + Cardinality(NodeLinesAfterRoot(lines))
        /\ Cardinality(Tree(nodes, result)) = Len(pre)
        /\ created[result] = LastH1(lines)
        /\ \A j \in NodeLinesAfterRoot(lines) :
             \E i \in 2..Len(pre) : created[pre[i]] = j
        /\ \A i, j \in 1..Len(pre) :
             i < j => created[pre[i]] < created[pre[j]]

\* C28's case: a returned tree of a root, a heading and a list item, in a
\* text whose earlier H1 made a node that is not in the tree
C28_Witness ==
  /\ pc = "done"
  /\ LastH1(lines) > 1
  /\ Len(nodes) > Cardinality(Tree(nodes, result))
  /\ \E n, m \in Tree(nodes, result) :
       /\ nodes[n].headingLevel \in 2..4
       /\ nodes[m].headingLevel = Undefined

(* ------------------------------ C29 ----------------------------------- *)
\* whether node n of the heap is a heading, the root's level 1 included
IsHeading(heap, n) == heap[n].headingLevel >= 1

\* the number of edges from node n up to the node without a parent
RECURSIVE DepthOf(_, _)
DepthOf(heap, n) ==
  IF ParentOf(heap, n) = Null THEN 0 ELSE DepthOf(heap, ParentOf(heap, n)) + 1

\* C29 (order of the children, heading levels along a path): in a returned
\* tree no list-item child comes after a heading child of the same node;
\* the parent of a heading of level 2 to 4 is a heading, every heading
\* above a heading has a smaller level, and a heading of level L is at
\* depth L - 1 at most.
C29_HeadingsBelowLists ==
  pc = "done" =>
    \A n \in Tree(nodes, result) :
      /\ \A i, j \in 1..Len(nodes[n].children) :
           i < j /\ IsHeading(nodes, nodes[n].children[i])
             => IsHeading(nodes, nodes[n].children[j])
      /\ n # result /\ IsHeading(nodes, n) =>
           /\ IsHeading(nodes, ParentOf(nodes, n))
           /\ \A a \in Ancestors(nodes, n) :
                IsHeading(nodes, a)
                  /\ nodes[a].headingLevel < nodes[n].headingLevel
           /\ DepthOf(nodes, n) <= nodes[n].headingLevel - 1

\* C29's case: a returned tree where a node has a list-item child and then
\* a heading child, and where a heading of level 3 has a heading of level 2
\* above it
C29_Witness ==
  /\ pc = "done"
  /\ \E n \in Tree(nodes, result) :
       /\ Len(nodes[n].children) = 2
       /\ ~IsHeading(nodes, nodes[n].children[1])
       /\ IsHeading(nodes, nodes[n].children[2])
  /\ \E n \in Tree(nodes, result) :
       /\ nodes[n].headingLevel = 3
       /\ DepthOf(nodes, n) = 2

(* ------------------------------ C30 ----------------------------------- *)
\* the top of the band positionNodes gave n, read off where it put n: the
\* y it was called with, y = n.y - subtreeHeight / 2 + height / 2
BandTopAt(n) ==
  layout[n].y - SubtreeHeightOf(n) \div 2 + layout[n].height \div 2

\* the end of that band
BandEndAt(n) == BandTopAt(n) + SubtreeHeightOf(n)

\* whether the rectangles of the layout nodes a and b share no point
Apart(a, b) ==
  \/ layout[a].x + layout[a].width < layout[b].x
  \/ layout[b].x + layout[b].width < layout[a].x
  \/ layout[a].y + layout[a].height < layout[b].y
  \/ layout[b].y + layout[b].height < layout[a].y

\* C30 (no overlap): after layoutTree and positionNodes the box of every
\* layout node lies in its own band and in the band of each of its
\* ancestors, of two children of a node the band of the later one begins at
\* least 16 below the end of the band of the earlier one, and no two
\* rectangles of the layout tree share a point.
C30_NoOverlap ==
  pc = "positioned" =>
    /\ \A n \in DOMAIN layout :
         \A a \in {n} \cup Ancestors(nodes, n) :
           /\ BandTopAt(a) <= layout[n].y
           /\ layout[n].y + layout[n].height <= BandEndAt(a)
    /\ \A p \in DOMAIN layout :
         \A i, j \in 1..Len(layout[p].children) :
           i < j => BandTopAt(layout[p].children[j])
                      >= BandEndAt(layout[p].children[i]) + Tenths(NODE_GAP_Y)
    /\ \A a, b \in DOMAIN layout : a # b => Apart(a, b)

\* C30's case: positioned, a node with two children the first of which has
\* a child, so that a node and the child of its sibling are both there, and
\* a node whose band is higher than its box
C30_Witness ==
  /\ pc = "positioned"
  /\ \E p \in DOMAIN layout :
       /\ Len(layout[p].children) = 2
       /\ layout[layout[p].children[1]].children # <<>>
       /\ BandEndAt(p) > layout[p].y + layout[p].height

(* ====================== the claims about the editor =================== *)
(* ------------------------------ C31 ----------------------------------- *)
\* toggleCollapse(id) on node n of the heap: node.collapsed = !node.collapsed
\* unless the node has no children
toggleCollapse(heap, n) ==
  IF heap[n].children = <<>> THEN heap
  ELSE [heap EXCEPT ![n].collapsed = IF @ = "true" THEN "false" ELSE "true"]

\* the heap with no node collapsed
Uncollapsed(heap) ==
  [n \in DOMAIN heap |-> [heap[n] EXCEPT !.collapsed = "undefined"]]

\* C31 (collapse is not saved): the string serializeToMarkdown returns for
\* a tree is the one it returns for the tree with every collapsed flag
\* removed, and for the tree after toggleCollapse of any node; and it has a
\* line for every node of the tree, in pre-order, the nodes below a
\* collapsed node included.
C31_CollapseNotSaved ==
  pc = "serialized" =>
    LET pre == Preorder(nodes, <<result>>)
    IN  /\ markdown = serializeToMarkdown(Uncollapsed(nodes), result)
        /\ \A n \in Tree(nodes, result) :
             markdown = serializeToMarkdown(toggleCollapse(nodes, n), result)
        /\ SelectSeq(OutLines, IsNodeOut)
             = [k \in 1..Len(pre) |-> OwnLine(nodes, pre[k])]

\* C31's case: a serialized tree with a collapsed node that has a child
\* with a child of its own, and another node that is not collapsed
C31_Witness ==
  /\ pc = "serialized"
  /\ \E n \in Tree(nodes, result), m \in Tree(nodes, result) :
       /\ nodes[n].collapsed = "true"
       /\ nodes[n].children # <<>>
       /\ nodes[nodes[n].children[1]].children # <<>>
       /\ nodes[m].collapsed # "true"

(* ------------------------------ C32 ----------------------------------- *)
\* C32 (wrapText ends): charsPerLine is 1 at least, whatever maxWidth is;
\* every iteration of the loop makes remaining shorter and pushes a line
\* that is not empty; the call returns; and no line it returns is empty.
C32_WrapTerminates ==
  /\ [](wrap.charsPerLine >= 1)
  /\ [][pc' = "wrap" =>
          /\ Len(wrap'.remaining) < Len(wrap.remaining)
          /\ Len(lines') = Len(lines) + 1]_vars
  /\ [](\A i \in 1..Len(lines) : lines[i] # <<>>)
  /\ <>(pc = "wrapped")

\* C32's case: a call with maxWidth within twice the padding has returned
\* after more than two iterations with charsPerLine 1
C32_Witness ==
  /\ pc = "wrapped"
  /\ wrap.maxWidth <= 2 * NODE_PADDING_X
  /\ wrap.charsPerLine = 1
  /\ Len(lines) > 3

(* ============== the parser of the webview script (inline) ============= *)
\* line.match(/^#\s+(.+)/): one '#', white space, and a non-empty rest
InlineHeadingMatch(line) ==
  LET ws   == Run(line, 2, WhiteSpace)
      fits == {j \in 1..ws : j + 2 <= Len(line)
                             /\ line[j + 2] \notin LineTerminators}
  IN  IF Len(line) >= 1 /\ line[1] = "#" /\ fits # {}
      THEN LET from == Max(fits) + 2
           IN  [matched |-> TRUE,
                g1 |-> SubSeq(line, from,
                              from + RunNot(line, from, LineTerminators) - 1)]
      ELSE NoMatch

\* line.match(/^\s*!\[([^\]]*)\]\(([^)]+)\)/): the path is all up to the
\* first ')'
InlineImageMatch(line) ==
  LET ws    == Run(line, 1, WhiteSpace)
      alt   == ws + 3
      altN  == RunNot(line, alt, {"]"})
      path  == alt + altN + 2
      pathN == RunNot(line, path, {")"})
  IN  IF /\ path + pathN <= Len(line)
         /\ line[ws + 1] = "!"
         /\ line[ws + 2] = "["
         /\ line[alt + altN] = "]"
         /\ line[path - 1] = "("
         /\ pathN >= 1
      THEN [matched |-> TRUE,
            g1 |-> SubSeq(line, alt, alt + altN - 1),
            g2 |-> SubSeq(line, path, path + pathN - 1)]
      ELSE NoMatch

\* InlinePop popping while the indent is greater, not while it is equal
RECURSIVE InlinePopGreater(_, _)
InlinePopGreater(stk, indent) ==
  IF Len(stk) > 1 /\ stk[Len(stk)].indent > indent
  THEN InlinePopGreater(SubSeq(stk, 1, Len(stk) - 1), indent)
  ELSE stk

\* while (stack.length > 1 && stack[stack.length - 1].indent >= indent)
\*   stack.pop();
RECURSIVE InlinePop(_, _)
InlinePop(stk, indent) ==
  IF Len(stk) > 1 /\ stk[Len(stk)].indent >= indent
  THEN InlinePop(SubSeq(stk, 1, Len(stk) - 1), indent)
  ELSE stk

\* one iteration of the inline parser's `for (const line of lines)`; its
\* nodes have no headingLevel and its frames are { node, indent }
InlineParseLine(st, line, id) ==
  LET hm  == InlineHeadingMatch(line)
      im  == InlineImageMatch(line)
      lm  == ListMatch(line)
      new == Len(st.nodes) + 1
  IN  IF hm.matched
      THEN [st EXCEPT
              !.nodes = Append(@, NewNode(id, Trim(hm.g1), Undefined)),
              !.rootNode = new,
              !.stack = <<[node |-> new, indent |-> -1]>>,
              !.lastNode = Null]
      ELSE IF im.matched /\ st.lastNode # Null
      THEN [st EXCEPT !.nodes[st.lastNode].image = im.g2]
      ELSE IF lm.matched /\ st.rootNode # Null
      THEN LET popped == InlinePop(st.stack, Len(lm.g1))
               parent == popped[Len(popped)].node
           IN  [st EXCEPT
                  !.nodes = Append([@ EXCEPT ![parent].children =
                                                Append(@, new)],
                                   NewNode(id, Trim(lm.g2), Undefined)),
                  !.stack = Append(popped, [node |-> new,
                                         indent |-> Len(lm.g1)]),
                  !.lastNode = new]
      ELSE [st EXCEPT !.lastNode = Null]

\* the inline parseMarkdown(text) as a function, every generateId giving id
RECURSIVE InlineParseLines(_, _, _)
InlineParseLines(st, ls, id) ==
  IF ls = <<>> THEN st
  ELSE InlineParseLines(InlineParseLine(st, Head(ls), id), Tail(ls), id)

inlineParseMarkdown(text, id) ==
  ParseReturn(InlineParseLines(InitParse, Split(text), id), id)

(* ------------------- one call of the inline parseMarkdown ------------- *)
\* The lines of an input: a root line, one with a blank label, list items
\* of every indentation, headings of two to four '#', the two forms of an
\* image line, and the empty line.
InlineLineSet ==
  {HeadingLineOf(k, LabelA) : k \in 1..4}
  \cup {ListLineOf(i, LabelB) : i \in 0..MaxIndent}
  \cup {HeadingLineOf(1, Blank), PlainImageLine, SizedImageLine, <<>>}

\* the loop body on the next line
InlineStep(line, id) ==
  LET st == InlineParseLine(ParseState, line, id)
  IN  /\ pc = "loop"
      /\ Len(lines) < MaxLines
      /\ lines' = Append(lines, line)
      /\ nodes' = st.nodes
      /\ rootNode' = st.rootNode
      /\ stack' = st.stack
      /\ lastNode' = st.lastNode
      /\ created' = IF Len(st.nodes) > Len(nodes)
                    THEN Append(created, Len(lines) + 1) ELSE created
      /\ UNCHANGED <<thrown, pc, result>>
      /\ UNCHANGED others

InlineRootLines ==
  {line \in InlineLineSet : InlineHeadingMatch(line).matched}
InlineImageLines ==
  {line \in InlineLineSet \ InlineRootLines : InlineImageMatch(line).matched}
InlineListLines ==
  {line \in InlineLineSet \ InlineRootLines : ListMatch(line).matched}

\* the next line is a root heading
InlineRootStep ==
  \E line \in InlineRootLines, id \in IdSpace : InlineStep(line, id)

\* the next line is an image line and lastNode is set
InlineImageStep ==
  /\ lastNode # Null
  /\ \E line \in InlineImageLines : InlineStep(line, Null)

\* the next line is a list item and rootNode is set
InlineListStep ==
  /\ rootNode # Null
  /\ \E line \in InlineListLines, id \in IdSpace : InlineStep(line, id)

\* the next line is anything else
InlineOtherStep ==
  \E line \in InlineLineSet \ InlineRootLines :
    /\ ~(line \in InlineImageLines /\ lastNode # Null)
    /\ ~(line \in InlineListLines /\ rootNode # Null)
    /\ InlineStep(line, Null)

NextInline ==
  InlineRootStep \/ InlineImageStep \/ InlineListStep \/ InlineOtherStep
    \/ Return

SpecInline == Init /\ [][NextInline]_vars

(* ------------------------------ C33 ----------------------------------- *)
\* a tree by its texts and the children in order
RECURSIVE TextShape(_, _)
TextShape(heap, n) ==
  [text |-> heap[n].text,
   children |-> [i \in 1..Len(heap[n].children) |->
                   TextShape(heap, heap[n].children[i])]]

\* a line of the flat grammar: a '# ' root line, a '- ' list item or a
\* blank line
IsFlatLine(line) ==
  \/ LevelOfLine(line) = 1
  \/ IsListLine(line)
  \/ \A k \in 1..Len(line) : line[k] \in WhiteSpace

\* C33 (the two parsers on the flat grammar): when every line of the text
\* is a root line, a list item or blank, the tree the inline parser returns
\* has the texts and the children, in order, of the tree the core parser
\* returns for the same text; and no node of the inline parser was made by
\* a line of two to four '#'.
C33_ParsersAgree ==
  /\ \A n \in DOMAIN created :
       created[n] <= Len(lines) => LevelOfLine(lines[created[n]]) \notin 2..4
  /\ pc = "done" /\ (\A j \in 1..Len(lines) : IsFlatLine(lines[j])) =>
       LET core == parseMarkdown(JoinWith(lines, <<"\n">>), 0)
       IN  TextShape(nodes, result) = TextShape(core.heap, core.node)

\* C33's case: for a flat text the inline parser has returned a root with
\* a list item that has a list item below it
C33_Witness ==
  /\ pc = "done"
  /\ \A j \in 1..Len(lines) : IsFlatLine(lines[j])
  /\ \E n \in Tree(nodes, result) :
       /\ n # result
       /\ nodes[n].children # <<>>

(* ========================= the webview script ========================= *)
\* The webview script keeps its tree in `root` (here: result, over the heap
\* nodes) and its other variables in ui; it has its own parser (above),
\* serializer and preserveCollapsedState.

\* the inline serializeChildren(children, depth): what it appends to result
RECURSIVE inlineSerializeChildren(_, _, _)
inlineSerializeChildren(heap, children, depth) ==
  IF children = <<>> THEN <<>>
  ELSE
    LET child  == heap[Head(children)]
        indent == Repeat(<<" ", " ">>, depth)
    IN  indent \o <<"-", " ">> \o child.text \o <<"\n">>
        \o (IF child.image # NoImage
            THEN indent \o <<" ", " ", "!", "[", "]", "(">> \o child.image
                 \o <<")", "\n">>
            ELSE <<>>)
        \o inlineSerializeChildren(heap, child.children, depth + 1)
        \o inlineSerializeChildren(heap, Tail(children), depth)

\* the inline serializeToMarkdown(node)
inlineSerializeToMarkdown(heap, node) ==
  <<"#", " ">> \o heap[node].text \o <<"\n">>
  \o inlineSerializeChildren(heap, heap[node].children, 0)

\* the inline preserveCollapsedState(oldNode, newNode): collapsed and image
RECURSIVE inlinePreserveCollapsedState(_, _, _)
inlinePreserveCollapsedState(heap, old, new) ==
  LET o == heap[old]
      h == [heap EXCEPT
              ![new].collapsed = IF o.collapsed = "true" THEN "true"
                                 ELSE "false",
              ![new].image = IF o.image # NoImage THEN o.image ELSE @]
      minLen == Min(Len(heap[old].children), Len(heap[new].children))
      RECURSIVE Loop(_, _)
      Loop(hp, i) ==
        IF i > minLen THEN hp
        ELSE Loop(inlinePreserveCollapsedState(hp, heap[old].children[i],
                                               heap[new].children[i]), i + 1)
  IN  Loop(h, 1)

\* findNode(node, id): the first node with the id, in pre-order, or Null
RECURSIVE findNode(_, _, _)
findNode(heap, node, id) ==
  IF heap[node].id = id THEN node
  ELSE LET RECURSIVE Loop(_)
           Loop(i) ==
             IF i > Len(heap[node].children) THEN Null
             ELSE LET found == findNode(heap, heap[node].children[i], id)
                  IN  IF found # Null THEN found ELSE Loop(i + 1)
       IN  Loop(1)

\* findParent(node, id): the node below node that has a child with the id,
\* the first in the order of the search, or Null
RECURSIVE findParent(_, _, _)
findParent(heap, node, id) ==
  LET RECURSIVE Loop(_)
      Loop(i) ==
        IF i > Len(heap[node].children) THEN Null
        ELSE LET child == heap[node].children[i]
             IN  IF heap[child].id = id THEN node
                 ELSE LET found == findParent(heap, child, id)
                      IN  IF found # Null THEN found ELSE Loop(i + 1)
  IN  Loop(1)

\* parent.children.findIndex((c) => c.id === id), 1-based; 0 for -1
findIndex(heap, children, id) ==
  LET hits == {i \in 1..Len(children) : heap[children[i]].id = id}
  IN  IF hits = {} THEN 0 ELSE CHOOSE i \in hits : \A j \in hits : i <= j

\* generateId() called k times: ids no node and no variable holds.  (Two
\* calls can give the same id; the claims about the webview are settled
\* for calls that do not.)
FreshIds(used, k) ==
  LET free == (1..(Cardinality(used) + k)) \ used
  IN  SubSeq(Sorted(free), 1, k)

(* -------------------- the webview and the extension host -------------- *)
\* the most node objects the webview's heap holds
MaxUiNodes == 3
\* the most messages on their way in one direction
MaxInFlight == 2

\* 'New Topic'
NewTopic == <<"N", "e", "w", " ", "T", "o", "p", "i", "c">>

\* the texts an external edit or the Markdown editor gives the document;
\* their list items have the text addChild() gives a node, so that the
\* trees the handlers make are among those the texts give
DocTexts ==
  {HeadingLineOf(1, LabelA),
   JoinWith(<<HeadingLineOf(1, LabelA), ListLineOf(0, NewTopic),
              ListLineOf(0, NewTopic)>>, <<"\n">>),
   JoinWith(<<HeadingLineOf(1, LabelA), ListLineOf(0, NewTopic),
              ListLineOf(2, NewTopic)>>, <<"\n">>)}

\* The webview script has loaded and the host has posted the document's
\* text (resolveCustomTextEditor: updateWebview()).  ui holds the script's
\* variables, the host's document, and the messages on their way: toHost
\* the texts of 'save' messages, toWebview the 'update' messages, each with
\* what made the host post it ("load", "external" for a change of the
\* document from elsewhere, "echo" for the webview's own save).  With
\* hostModelled FALSE the host is part of the environment: what the webview
\* posts leaves the model, and the document is not kept.
Loaded(hostModelled) ==
  /\ NoParse
  /\ pc = "webview"
  /\ nodes = <<>>
  /\ result = Null
  /\ markdown = <<>>
  /\ oldNode = Null
  /\ layout = <<>>
  /\ wrap = <<>>
  /\ origin = <<>>
  /\ \E text \in DocTexts :
       ui = [selectedNodeId |-> Null, dragNodeId |-> Null,
             isDragging |-> FALSE, dropTargetId |-> Null,
             dropPosition |-> "null", suppressNextUpdate |-> FALSE,
             hostModelled |-> hostModelled,
             document |-> IF hostModelled THEN text ELSE <<>>,
             toHost |-> <<>>,
             toWebview |-> <<[text |-> text, cause |-> "load"]>>]

InitWebview == Loaded(TRUE)

\* what the webview and the host leave alone
UiFrame ==
  UNCHANGED <<lines, rootNode, stack, lastNode, thrown, created, pc, markdown,
              oldNode, layout, wrap, origin>>

\* the ids the script's variables hold, and with them those of the tree
HeldIds == {ui.selectedNodeId, ui.dragNodeId, ui.dropTargetId} \ {Null}
UsedIds == {nodes[n].id : n \in DOMAIN nodes} \cup HeldIds

\* parseMarkdown(text) of each text the document is given
ParsedDocs == [text \in DocTexts |-> inlineParseMarkdown(text, 0)]

\* generateId() gives an id no node had before, and ids are only ever
\* compared for equality.  After a parse every id of the old tree is one no
\* node has: those the script's variables still hold are written from here
\* on as MaxUiNodes + 1, + 2 and + 3, different ids staying different, and
\* the nodes of the new tree take the first ids.
Stale(id) ==
  IF id = Null THEN Null
  ELSE IF id = ui.selectedNodeId THEN MaxUiNodes + 1
  ELSE IF id = ui.dragNodeId THEN MaxUiNodes + 2
  ELSE MaxUiNodes + 3

\* ui with the ids it holds being those of the old tree
Kept(u) ==
  [u EXCEPT !.selectedNodeId = Stale(@), !.dragNodeId = Stale(@),
            !.dropTargetId = Stale(@)]

\* newRoot = parseMarkdown(text); if (root) preserveCollapsedState(root,
\* newRoot): the heap of the new tree and its root.  The old tree is
\* garbage from here on and leaves the heap.
Reparsed(text) ==
  LET p     == IF text \in DocTexts THEN ParsedDocs[text]
               ELSE inlineParseMarkdown(text, 0)
      fresh == FreshIds({}, Len(p.heap))
      new   == [n \in 1..Len(p.heap) |-> [p.heap[n] EXCEPT !.id = fresh[n]]]
      both  == inlinePreserveCollapsedState(
                 nodes \o ShiftHeap(new, Len(nodes)), result,
                 p.node + Len(nodes))
  IN  [heap |-> IF result = Null THEN new
                ELSE ShiftHeap(SubSeq(both, Len(nodes) + 1, Len(both)),
                               -Len(nodes)),
       node |-> p.node]

\* vscode.postMessage({ type: 'save', text })
postMessage(u, text) ==
  IF u.hostModelled THEN [u EXCEPT !.toHost = Append(@, text)] ELSE u

\* The heap with the nodes reachable from root only, in preorder: a node no
\* reference leads to is garbage, and where a node lies in the heap is
\* nothing the script can see.
Collected(heap, root) ==
  LET order == Preorder(heap, <<root>>)
      at(n) == CHOOSE i \in 1..Len(order) : order[i] = n
  IN  [i \in 1..Len(order) |->
         LET children == heap[order[i]].children
         IN  [heap[order[i]] EXCEPT
                !.children = [k \in 1..Len(children) |-> at(children[k])]]]

\* saveAndRender() with the tree heap, root: what it makes of ui
saveAndRender(u, heap, root) ==
  IF root = Null THEN u
  ELSE postMessage([u EXCEPT !.suppressNextUpdate = TRUE],
                   inlineSerializeToMarkdown(heap, root))

\* the timer of the Markdown editor's input handler, the editor holding text
EditorInput ==
  /\ Len(ui.toHost) < MaxInFlight
  /\ \E text \in DocTexts :
       LET t == Reparsed(text)
       IN  /\ nodes' = t.heap
           /\ result' = t.node
           /\ ui' = [Kept(ui) EXCEPT
                       !.selectedNodeId =
                          IF @ = Null THEN t.heap[t.node].id ELSE @,
                       !.suppressNextUpdate = TRUE,
                       !.toHost = IF ui.hostModelled THEN Append(@, text)
                                  ELSE @]
  /\ UiFrame

\* the message handler on an 'update' message
UpdateMessage ==
  /\ ui.toWebview # <<>>
  /\ IF ui.suppressNextUpdate
     THEN /\ ui' = [ui EXCEPT !.suppressNextUpdate = FALSE,
                              !.toWebview = Tail(@)]
          /\ UNCHANGED <<nodes, result>>
     ELSE LET t == Reparsed(Head(ui.toWebview).text)
          IN  /\ nodes' = t.heap
              /\ result' = t.node
              /\ ui' = [Kept(ui) EXCEPT
                          !.selectedNodeId =
                             IF @ = Null THEN t.heap[t.node].id ELSE @,
                          !.toWebview = Tail(@)]
  /\ UiFrame

\* the document changes from elsewhere (another editor, the disk):
\* onDidChangeTextDocument calls updateWebview
ExternalEdit ==
  /\ Len(ui.toWebview) < MaxInFlight
  /\ \E text \in DocTexts \ {ui.document} :
       ui' = [ui EXCEPT !.document = text,
                        !.toWebview = Append(@, [text |-> text,
                                                 cause |-> "external"])]
  /\ UNCHANGED <<nodes, result>>
  /\ UiFrame

\* the host on a 'save' message: applyEdit replaces the document's text,
\* and onDidChangeTextDocument calls updateWebview.  Whether the event
\* comes when the text is the one the document has already is the
\* editor's choice.
HostSave ==
  /\ ui.toHost # <<>>
  /\ Len(ui.toWebview) < MaxInFlight
  /\ \E notified \in {TRUE} \cup {Head(ui.toHost) # ui.document} :
       ui' = [ui EXCEPT
                !.document = Head(ui.toHost),
                !.toHost = Tail(@),
                !.toWebview =
                   IF notified
                   THEN Append(@, [text |-> Head(ui.toHost), cause |-> "echo"])
                   ELSE @]
  /\ UNCHANGED <<nodes, result>>
  /\ UiFrame

\* addChild()
AddChild ==
  /\ Len(nodes) < MaxUiNodes
  /\ Len(ui.toHost) < MaxInFlight
  /\ ui.selectedNodeId # Null /\ result # Null
  /\ LET parent == findNode(nodes, result, ui.selectedNodeId)
         new    == Len(nodes) + 1
         id     == FreshIds(UsedIds, 1)[1]
         heap   == Append([nodes EXCEPT ![parent].collapsed = "false",
                                        ![parent].children = Append(@, new)],
                          NewNode(id, NewTopic, Undefined))
     IN  /\ parent # Null
         /\ nodes' = Collected(heap, result)
         /\ ui' = saveAndRender([ui EXCEPT !.selectedNodeId = id], heap,
                                result)
  /\ UNCHANGED result
  /\ UiFrame

NextSync ==
  EditorInput \/ UpdateMessage \/ ExternalEdit \/ HostSave \/ AddChild

SpecSync == InitWebview /\ [][NextSync]_vars

(* ------------------------------ C34 ----------------------------------- *)
\* the step of the message handler that discards the 'update' message at
\* the head of toWebview
Discards ==
  /\ ui.toWebview # <<>>
  /\ ui.suppressNextUpdate
  /\ ui'.toWebview = Tail(ui.toWebview)
  /\ ~ui'.suppressNextUpdate

\* C34 (suppressNextUpdate): whatever the order of the webview's saves, the
\* host's 'update' messages and the changes of the document from elsewhere,
\* the message handler discards an 'update' message only if the host
\* posted it for a save of the webview; one posted for another change of
\* the document is parsed.
C34_OnlyEchoesDiscarded ==
  [][Discards => Head(ui.toWebview).cause = "echo"]_vars

(* ------------------------ the handlers of the map --------------------- *)
\* The inline text editor (startEditing) is left out: the toolbar and the
\* context menu call addChild, addSibling and deleteNode whatever isEditing
\* is.  The panning variables and the collapse toggle are left out as well:
\* every node of the tree is drawn.

\* seq without its i-th element, and with x put in before its i-th
RemoveAt(seq, i) == SubSeq(seq, 1, i - 1) \o SubSeq(seq, i + 1, Len(seq))
InsertAt(seq, i, x) == SubSeq(seq, 1, i - 1) \o <<x>> \o SubSeq(seq, i, Len(seq))

\* the ids of the nodes that are drawn: findNodeAtPoint gives one of them
DrawnIds == IF result = Null THEN {} ELSE {nodes[n].id : n \in Visible}

\* addSibling()
AddSibling ==
  /\ Len(nodes) < MaxUiNodes
  /\ Len(ui.toHost) < MaxInFlight
  /\ ui.selectedNodeId # Null /\ result # Null
  /\ ui.selectedNodeId # nodes[result].id
  /\ LET parent == findParent(nodes, result, ui.selectedNodeId)
         new    == Len(nodes) + 1
         id     == FreshIds(UsedIds, 1)[1]
     IN  /\ parent # Null
         /\ LET index == findIndex(nodes, nodes[parent].children,
                                   ui.selectedNodeId)
                heap  == Append([nodes EXCEPT ![parent].children =
                                                 InsertAt(@, index + 1, new)],
                                NewNode(id, NewTopic, Undefined))
            IN  /\ nodes' = Collected(heap, result)
                /\ ui' = saveAndRender([ui EXCEPT !.selectedNodeId = id],
                                       heap, result)
  /\ UNCHANGED result
  /\ UiFrame

\* deleteNode()
DeleteNode ==
  /\ Len(ui.toHost) < MaxInFlight
  /\ ui.selectedNodeId # Null /\ result # Null
  /\ ui.selectedNodeId # nodes[result].id
  /\ LET parent == findParent(nodes, result, ui.selectedNodeId)
     IN  /\ parent # Null
         /\ LET index == findIndex(nodes, nodes[parent].children,
                                   ui.selectedNodeId)
                rest  == RemoveAt(nodes[parent].children, index)
                heap  == [nodes EXCEPT ![parent].children = rest]
                next  == IF Len(rest) > 0
                         THEN nodes[rest[Min(index, Len(rest))]].id
                         ELSE nodes[parent].id
            IN  /\ index # 0
                /\ nodes' = Collected(heap, result)
                /\ ui' = saveAndRender([ui EXCEPT !.selectedNodeId = next],
                                       heap, result)
  /\ UNCHANGED result
  /\ UiFrame

\* navigateUp() and navigateDown(): towards -1 and 1
NavigateSibling(towards) ==
  /\ ui.selectedNodeId # Null /\ result # Null
  /\ ui.selectedNodeId # nodes[result].id
  /\ LET parent == findParent(nodes, result, ui.selectedNodeId)
     IN  /\ parent # Null
         /\ LET children == nodes[parent].children
                index    == findIndex(nodes, children, ui.selectedNodeId)
            IN  /\ IF towards < 0 THEN index > 1 ELSE index < Len(children)
                /\ ui' = [ui EXCEPT !.selectedNodeId =
                                       nodes[children[index + towards]].id]
  /\ UNCHANGED <<nodes, result>>
  /\ UiFrame

NavigateUp == NavigateSibling(-1)
NavigateDown == NavigateSibling(1)

\* navigateLeft()
NavigateLeft ==
  /\ ui.selectedNodeId # Null /\ result # Null
  /\ ui.selectedNodeId # nodes[result].id
  /\ LET parent == findParent(nodes, result, ui.selectedNodeId)
     IN  /\ parent # Null
         /\ ui' = [ui EXCEPT !.selectedNodeId = nodes[parent].id]
  /\ UNCHANGED <<nodes, result>>
  /\ UiFrame

\* navigateRight()
NavigateRight ==
  /\ ui.selectedNodeId # Null /\ result # Null
  /\ LET node == findNode(nodes, result, ui.selectedNodeId)
     IN  /\ node # Null
         /\ nodes[node].children # <<>>
         /\ nodes[node].collapsed # "true"
         /\ ui' = [ui EXCEPT !.selectedNodeId =
                                nodes[nodes[node].children[1]].id]
  /\ UNCHANGED <<nodes, result>>
  /\ UiFrame

\* a click on a drawn node (selectNode) or on the background
\* (onContainerMouseDown: selectedNodeId = null), the button being up
\* before it: dragNodeId is set from the button's going down on a node to
\* its going up
Click ==
  /\ ui.dragNodeId = Null
  /\ \E id \in DrawnIds \cup {Null} : ui' = [ui EXCEPT !.selectedNodeId = id]
  /\ UNCHANGED <<nodes, result>>
  /\ UiFrame

\* isDescendant(ancestorId, nodeId)
isDescendant(ancestorId, nodeId) ==
  /\ result # Null
  /\ LET ancestor == findNode(nodes, result, ancestorId)
     IN  /\ ancestor # Null
         /\ \E n \in Tree(nodes, ancestor) : nodes[n].id = nodeId

\* onNodeMouseDown taking the root as well
OnNodeMouseDownAny ==
  /\ ui.dragNodeId = Null
  /\ \E id \in DrawnIds :
       ui' = [ui EXCEPT !.dragNodeId = id, !.isDragging = FALSE]
  /\ UNCHANGED <<nodes, result>>
  /\ UiFrame

\* onNodeMouseDown(e, node) with the left button on a drawn node
OnNodeMouseDown ==
  /\ ui.dragNodeId = Null
  /\ \E id \in DrawnIds :
       /\ id # nodes[result].id
       /\ ui' = [ui EXCEPT !.dragNodeId = id, !.isDragging = FALSE]
  /\ UNCHANGED <<nodes, result>>
  /\ UiFrame

\* onMouseMove(e) more than 5 away from where the button went down, over
\* the drawn node target or over none, at any height of it
OnMouseMove ==
  /\ ui.dragNodeId # Null
  /\ \E target \in DrawnIds \cup {Null} :
       IF /\ target # Null
          /\ target # ui.dragNodeId
          /\ ~isDescendant(ui.dragNodeId, target)
       THEN \E position \in IF target = nodes[result].id THEN {"child"}
                             ELSE {"before", "after", "child"} :
              ui' = [ui EXCEPT !.isDragging = TRUE,
                               !.dropTargetId = target,
                               !.dropPosition = position]
       ELSE ui' = [ui EXCEPT !.isDragging = TRUE, !.dropTargetId = Null,
                             !.dropPosition = "null"]
  /\ UNCHANGED <<nodes, result>>
  /\ UiFrame

\* the tree after the drop of onMouseUp, parent the parent of the dragged
\* node: [heap, moved], moved Null if nothing is moved
Dropped(parent) ==
  LET index  == findIndex(nodes, nodes[parent].children, ui.dragNodeId)
      moved  == nodes[parent].children[index]
      heap   == [nodes EXCEPT ![parent].children = RemoveAt(@, index)]
      targetNode   == findNode(heap, result, ui.dropTargetId)
      targetParent == findParent(heap, result, ui.dropTargetId)
      insertParent == IF targetParent # Null THEN targetParent ELSE result
      targetIndex  == findIndex(heap, heap[insertParent].children,
                                ui.dropTargetId)
  IN  IF ui.dropPosition = "child"
      THEN IF targetNode # Null
           THEN [heap EXCEPT ![targetNode].children = Append(@, moved),
                             ![targetNode].collapsed = "false"]
           ELSE heap
      ELSE IF targetIndex # 0
      THEN [heap EXCEPT ![insertParent].children =
              InsertAt(@, IF ui.dropPosition = "before" THEN targetIndex
                          ELSE targetIndex + 1, moved)]
      ELSE [heap EXCEPT ![insertParent].children = Append(@, moved)]

\* onMouseUp()
OnMouseUp ==
  /\ ui.dragNodeId # Null
  /\ Len(ui.toHost) < MaxInFlight
  /\ LET reset == [ui EXCEPT !.dragNodeId = Null, !.isDragging = FALSE,
                             !.dropTargetId = Null, !.dropPosition = "null"]
         parent == IF result = Null THEN Null
                   ELSE findParent(nodes, result, ui.dragNodeId)
     IN  IF /\ ui.isDragging /\ ui.dropTargetId # Null
            /\ ui.dropPosition # "null" /\ parent # Null
         THEN /\ nodes' = Collected(Dropped(parent), result)
              /\ ui' = saveAndRender(
                         [reset EXCEPT !.selectedNodeId = ui.dragNodeId],
                         Dropped(parent), result)
         ELSE /\ ui' = reset
              /\ UNCHANGED nodes
  /\ UNCHANGED result
  /\ UiFrame

\* the host, as the environment of the webview, posts an 'update' message
HostUpdate ==
  /\ ui.toWebview = <<>>
  /\ \E text \in DocTexts :
       ui' = [ui EXCEPT !.toWebview = <<[text |-> text, cause |-> "external"]>>]
  /\ UNCHANGED <<nodes, result>>
  /\ UiFrame

InitUI == Loaded(FALSE)

NextUI ==
  \/ EditorInput \/ UpdateMessage \/ HostUpdate
  \/ AddChild \/ AddSibling \/ DeleteNode
  \/ NavigateUp \/ NavigateDown \/ NavigateLeft \/ NavigateRight
  \/ Click \/ OnNodeMouseDown \/ OnMouseMove \/ OnMouseUp

SpecUI == InitUI /\ [][NextUI]_vars


(* ------------------------------ C35 ----------------------------------- *)
\* C35 (selection): after any sequence of addChild, addSibling, deleteNode,
\* the navigate handlers, drag-and-drop, input in the Markdown editor and
\* 'update' messages, selectedNodeId is null or the id of a node of the
\* current tree.
C35_SelectedInTree ==
  \/ ui.selectedNodeId = Null
  \/ /\ result # Null
     /\ \E n \in Tree(nodes, result) : nodes[n].id = ui.selectedNodeId

(* ------------------------------ C36 ----------------------------------- *)
\* a step of one of the handlers that work on the tree in place
TreeHandler ==
  \/ AddChild \/ AddSibling \/ DeleteNode
  \/ OnNodeMouseDown \/ OnMouseMove \/ OnMouseUp

\* root is the child of no node of heap
IsTop(heap, root) ==
  \A n \in DOMAIN heap :
    \A i \in 1..Len(heap[n].children) : heap[n].children[i] # root

\* C36 (the root stays): no drag starts on the root; addChild, addSibling,
\* deleteNode and the mouse handlers leave the tree with the root it had,
\* the child of no node; and with the root selected the only handlers that
\* change the tree are addChild, a drop and the two that parse a text, so
\* that addSibling and deleteNode do nothing on the root.
C36_RootStays ==
  /\ []((result # Null /\ ui.dragNodeId # Null)
          => ui.dragNodeId # nodes[result].id)
  /\ [][(result # Null /\ TreeHandler)
          => /\ result' = result
             /\ Len(nodes') >= 1
             /\ nodes'[result'].id = nodes[result].id
             /\ nodes'[result'].text = nodes[result].text
             /\ IsTop(nodes', result')]_vars
  /\ [][(result # Null /\ ui.selectedNodeId = nodes[result].id
            /\ nodes' # nodes)
          => AddChild \/ OnMouseUp \/ EditorInput \/ UpdateMessage]_vars

\* the root is selected while another node is dragged onto it, in a tree
\* that addSibling or a parse has filled
C36_Witness ==
  /\ result # Null
  /\ Len(nodes) = MaxUiNodes
  /\ ui.selectedNodeId = nodes[result].id
  /\ ui.isDragging
  /\ ui.dropTargetId = nodes[result].id

(* ------------------------------ C37 ----------------------------------- *)
\* the ids of the nodes of the tree of heap under root, in preorder
IdsOf(heap, root) ==
  LET order == Preorder(heap, <<root>>)
  IN  [i \in 1..Len(order) |-> heap[order[i]].id]

\* the ids in a sequence of ids
IdSet(ids) == {ids[i] : i \in 1..Len(ids)}

\* onMouseUp() with a drop target: a completed drag-and-drop
DropStep ==
  /\ result # Null
  /\ ui.isDragging
  /\ ui.dragNodeId # Null
  /\ ui.dropTargetId # Null
  /\ ui.dropPosition # "null"
  /\ OnMouseUp

\* C37 (drag-and-drop): a completed drag-and-drop leaves the tree under
\* root with the nodes it had, each of them once, and the dragged node, if
\* it was in the tree, with a parent that is neither itself nor one of its
\* descendants, whichever the drop position is.
C37_DropKeepsNodes ==
  [][DropStep =>
       LET before  == IdsOf(nodes, result)
           after   == IdsOf(nodes', result')
           dragged == findNode(nodes, result, ui.dragNodeId)
           parent  == findParent(nodes', result', ui.dragNodeId)
       IN  /\ IdSet(after) = IdSet(before)
           /\ Len(after) = Len(before)
           /\ Cardinality(IdSet(after)) = Len(after)
           /\ dragged # Null =>
                /\ parent # Null
                /\ nodes'[parent].id \notin
                     {nodes[n].id : n \in Tree(nodes, dragged)}]_vars

(* =============================== the zoom ============================= *)
\* zoom is counted in hundredths: 1 is 100.  What fitToScreen computes is
\* rounded down to a hundredth before it is clamped.
MIN_ZOOM == 20
MAX_ZOOM == 300
ZOOM_STEP == 10
\* const padding = 40, in pixels
FitPadding == 40

\* the widths and the heights of the container, in pixels
ContainerSizes == {0, 80, 200, 1000, 4000}

\* the script has a tree of one or two nodes, or none yet; zoom is 1
InitZoom ==
  /\ NoParse
  /\ \/ nodes = <<>> /\ result = Null
     \/ /\ \E k \in 1..2 :
             \E par \in ParentMaps(k), style \in [1..k -> OtherStyles] :
               nodes = LayoutHeap(k, par, style)
        /\ result = 1
  /\ pc = "zoom"
  /\ markdown = <<>>
  /\ oldNode = Null
  /\ layout = <<>>
  /\ wrap = <<>>
  /\ origin = <<>>
  /\ ui = [zoom |-> 100]

ZoomFrame ==
  UNCHANGED <<lines, nodes, rootNode, stack, lastNode, thrown, created, pc,
              result, markdown, oldNode, layout, wrap, origin>>

\* zoomIn() without Math.min
ZoomInUnbounded ==
  /\ pc = "zoom"
  /\ ui' = [ui EXCEPT !.zoom = ui.zoom + ZOOM_STEP]
  /\ ZoomFrame

\* zoomIn()
ZoomIn ==
  /\ pc = "zoom"
  /\ ui' = [ui EXCEPT !.zoom = Min(MAX_ZOOM, ui.zoom + ZOOM_STEP)]
  /\ ZoomFrame

\* zoomOut()
ZoomOut ==
  /\ pc = "zoom"
  /\ ui' = [ui EXCEPT !.zoom = Max({MIN_ZOOM, ui.zoom - ZOOM_STEP})]
  /\ ZoomFrame

\* onWheel(e), e.deltaY any number
OnWheel ==
  /\ pc = "zoom"
  /\ \E deltaY \in {-1, 0, 1} :
       LET delta   == IF deltaY > 0 THEN -ZOOM_STEP ELSE ZOOM_STEP
           newZoom == Max({MIN_ZOOM, Min(MAX_ZOOM, ui.zoom + delta)})
       IN  ui' = [ui EXCEPT !.zoom = newZoom]
  /\ ZoomFrame

\* fitToScreen() in a container of width by height pixels
FitToScreen ==
  /\ pc = "zoom"
  /\ result # Null
  /\ \E width \in ContainerSizes, height \in ContainerSizes :
       LET lay  == positionNodes(layoutTree(nodes, result, 0, 0), result, 0, 0)
           minX == -Max({-lay[n].x : n \in DOMAIN lay})
           minY == -Max({-lay[n].y : n \in DOMAIN lay})
           maxX == Max({lay[n].x + lay[n].width : n \in DOMAIN lay})
           maxY == Max({lay[n].y + lay[n].height : n \in DOMAIN lay})
           contentWidth  == maxX - minX
           contentHeight == maxY - minY
           scaleX == Floor(100 * Tenths(width - FitPadding * 2), contentWidth)
           scaleY == Floor(100 * Tenths(height - FitPadding * 2),
                           contentHeight)
       IN  ui' = [ui EXCEPT !.zoom =
                     Max({MIN_ZOOM, Min(MAX_ZOOM, Min(scaleX, scaleY))})]
  /\ ZoomFrame

NextZoom == ZoomIn \/ ZoomOut \/ OnWheel \/ FitToScreen

SpecZoom == InitZoom /\ [][NextZoom]_vars

(* ------------------------------ C38 ----------------------------------- *)
\* C38 (zoom): after any sequence of zoomIn, zoomOut, onWheel and
\* fitToScreen, zoom is at least MIN_ZOOM (0.2) and at most MAX_ZOOM (3.0).
C38_ZoomInRange == ui.zoom >= MIN_ZOOM /\ ui.zoom <= MAX_ZOOM

\* fitToScreen has set a zoom that no number of steps of 0.1 from 1 gives,
\* and the zoom has reached the one bound or the other
C38_Witness ==
  /\ result # Null
  /\ ui.zoom % ZOOM_STEP # 0
  /\ ui.zoom + ZOOM_STEP > MAX_ZOOM \/ ui.zoom - ZOOM_STEP < MIN_ZOOM

(* ------------------------------ C39 ----------------------------------- *)
\* C39 (the parser's stack): after each line, once an H1 has been seen, the
\* stack is not empty, its bottom frame holds the current root, the node of
\* every higher frame is the last child of the node of the frame below it,
\* the heading frames lie below the list-item frames, the heading frames
\* have strictly increasing headingLevel from bottom to top and the
\* list-item frames strictly increasing indent.
C39_StackInvariant ==
  rootNode # Null =>
    /\ stack # <<>>
    /\ stack[1].node = rootNode
    /\ \A i \in 1..(Len(stack) - 1) :
         LET children == nodes[stack[i].node].children
         IN  /\ children # <<>>
             /\ stack[i + 1].node = children[Len(children)]
    /\ \A i, j \in 1..Len(stack) :
         i < j =>
           /\ stack[j].headingLevel > 0 => stack[i].headingLevel > 0
           /\ stack[i].headingLevel > 0 /\ stack[j].headingLevel > 0
                => stack[i].headingLevel < stack[j].headingLevel
           /\ stack[i].headingLevel = 0 /\ stack[j].headingLevel = 0
                => stack[i].indent < stack[j].indent

\* the stack holds the root, a heading below it, a list item and a list
\* item nested in that one
C39_Witness ==
  /\ rootNode # Null
  /\ Len(stack) = 4
  /\ stack[2].headingLevel > 1
  /\ stack[3].headingLevel = 0
  /\ stack[4].headingLevel = 0
  /\ stack[4].indent > stack[3].indent

=============================================================================
